---------------------------- MODULE Spec2Model ----------------------------
(***************************************************************************)
(* Model of the prompt analysis engine of mythiq-media-creator             *)
(* (src/media_ai.py, class MediaAI).                                       *)
(*                                                                         *)
(* A Python str is modelled as a sequence of one-character strings, so     *)
(* that lower(), the substring test `keyword in prompt`, split() and       *)
(* re.findall(r'\b\w+\b', ...) are computed character by character.        *)
(* A Python dict is modelled as a sequence of entries in insertion order,  *)
(* which is the order max() and .items() iterate in.                       *)
(* The float confidence is modelled in tenths (0.1 = 1, 1.0 = 10).         *)
(***************************************************************************)
EXTENDS Integers, Sequences, FiniteSets, TLC

VARIABLES
    prompt,      \* the str passed to analyze_prompt by the caller
    now,         \* the wall clock read by datetime.now()
    analysis,    \* the record returned by the latest analyze_prompt call
    previous,    \* the record returned by the call before the latest one
    scores,      \* the `scores` dicts the five detectors built in the latest call
    result,      \* what the latest generate call of a generator returned or raised
    request,     \* the JSON body of the latest POST /api/generate
    response,    \* the response to it
    service_metrics,  \* the dict of app.py
    SYSTEM_STATUS,    \* "full_media_ai", or "fallback_system" after an ImportError
    gallery,          \* the response to the latest GET /api/gallery
    generation_stats,     \* the dict of a HealthChecker
    performance_history,  \* its list of performance entries
    error_log,            \* its list of error entries
    recorded,             \* the latest record_generation call and its outcome
    threads,     \* the request threads of the server: position and locals of each
    media_ai,    \* the taxonomies of the MediaAI instance the callers share
    calls        \* the callers of the instance: position and locals of each

appvars == <<request, response, service_metrics, SYSTEM_STATUS, gallery>>

healthvars == <<generation_stats, performance_history, error_log, recorded>>

concvars == <<threads, media_ai, calls>>

vars == <<prompt, now, analysis, previous, scores, result, appvars, healthvars,
          concvars>>

(***************************************************************************)
(* Bounds of the model.                                                    *)
(***************************************************************************)
MaxPad == 10     \* filler words ("a") put in front of a prompt
MaxClock == 1    \* the clock values 0..MaxClock
MaxRequests == 2 \* requests to /api/generate that pass the prompt test

(***************************************************************************)
(* MediaAI.__init__: the five taxonomies.                                  *)
(***************************************************************************)
media_types ==
  <<
    [label |-> "image", keywords |-> <<
          <<"i","m","a","g","e">>,
          <<"p","i","c","t","u","r","e">>,
          <<"p","h","o","t","o">>,
          <<"a","r","t">>,
          <<"d","r","a","w","i","n","g">>,
          <<"c","h","a","r","a","c","t","e","r">>,
          <<"b","a","c","k","g","r","o","u","n","d">>,
          <<"s","c","e","n","e">>,
          <<"s","p","r","i","t","e">>,
          <<"i","c","o","n">>,
          <<"l","o","g","o">>,
          <<"d","e","s","i","g","n">> >>],
    [label |-> "video", keywords |-> <<
          <<"v","i","d","e","o">>,
          <<"a","n","i","m","a","t","i","o","n">>,
          <<"m","o","v","i","e">>,
          <<"c","l","i","p">>,
          <<"g","i","f">>,
          <<"m","o","t","i","o","n">>,
          <<"a","n","i","m","a","t","e">>,
          <<"s","e","q","u","e","n","c","e">>,
          <<"c","i","n","e","m","a","t","i","c">>,
          <<"t","r","a","i","l","e","r">> >>],
    [label |-> "audio", keywords |-> <<
          <<"a","u","d","i","o">>,
          <<"m","u","s","i","c">>,
          <<"s","o","u","n","d">>,
          <<"s","o","n","g">>,
          <<"m","e","l","o","d","y">>,
          <<"b","e","a","t">>,
          <<"s","o","u","n","d","t","r","a","c","k">>,
          <<"e","f","f","e","c","t">>,
          <<"v","o","i","c","e">>,
          <<"n","o","i","s","e">> >>] >>

themes ==
  <<
    [label |-> "ninja", keywords |-> <<
          <<"n","i","n","j","a">>,
          <<"s","t","e","a","l","t","h">>,
          <<"s","h","a","d","o","w">>,
          <<"a","s","s","a","s","s","i","n">>,
          <<"k","a","t","a","n","a">>,
          <<"s","h","u","r","i","k","e","n">>,
          <<"m","a","r","t","i","a","l">>,
          <<"j","a","p","a","n","e","s","e">> >>],
    [label |-> "space", keywords |-> <<
          <<"s","p","a","c","e">>,
          <<"c","o","s","m","i","c">>,
          <<"g","a","l","a","x","y">>,
          <<"s","t","a","r">>,
          <<"p","l","a","n","e","t">>,
          <<"a","l","i","e","n">>,
          <<"s","c","i","-","f","i">>,
          <<"f","u","t","u","r","i","s","t","i","c">>,
          <<"s","p","a","c","e","s","h","i","p">> >>],
    [label |-> "medieval", keywords |-> <<
          <<"m","e","d","i","e","v","a","l">>,
          <<"k","n","i","g","h","t">>,
          <<"c","a","s","t","l","e">>,
          <<"s","w","o","r","d">>,
          <<"a","r","m","o","r">>,
          <<"d","r","a","g","o","n">>,
          <<"f","a","n","t","a","s","y">>,
          <<"k","i","n","g","d","o","m">>,
          <<"r","o","y","a","l">> >>],
    [label |-> "forest", keywords |-> <<
          <<"f","o","r","e","s","t">>,
          <<"t","r","e","e">>,
          <<"n","a","t","u","r","e">>,
          <<"w","o","o","d","l","a","n","d">>,
          <<"g","r","e","e","n">>,
          <<"l","e","a","f">>,
          <<"b","r","a","n","c","h">>,
          <<"n","a","t","u","r","a","l">>,
          <<"w","i","l","d">> >>],
    [label |-> "underwater", keywords |-> <<
          <<"u","n","d","e","r","w","a","t","e","r">>,
          <<"o","c","e","a","n">>,
          <<"s","e","a">>,
          <<"f","i","s","h">>,
          <<"c","o","r","a","l">>,
          <<"d","e","e","p">>,
          <<"a","q","u","a","t","i","c">>,
          <<"m","a","r","i","n","e">>,
          <<"b","l","u","e">> >>] >>

styles ==
  <<
    [label |-> "realistic", keywords |-> <<
          <<"r","e","a","l","i","s","t","i","c">>,
          <<"p","h","o","t","o","r","e","a","l","i","s","t","i","c">>,
          <<"d","e","t","a","i","l","e","d">>,
          <<"l","i","f","e","l","i","k","e">>,
          <<"a","c","c","u","r","a","t","e">>,
          <<"p","r","e","c","i","s","e">> >>],
    [label |-> "cartoon", keywords |-> <<
          <<"c","a","r","t","o","o","n">>,
          <<"a","n","i","m","a","t","e","d">>,
          <<"s","t","y","l","i","z","e","d">>,
          <<"c","u","t","e">>,
          <<"c","o","l","o","r","f","u","l">>,
          <<"f","u","n">>,
          <<"p","l","a","y","f","u","l">> >>],
    [label |-> "abstract", keywords |-> <<
          <<"a","b","s","t","r","a","c","t">>,
          <<"a","r","t","i","s","t","i","c">>,
          <<"c","r","e","a","t","i","v","e">>,
          <<"u","n","i","q","u","e">>,
          <<"e","x","p","e","r","i","m","e","n","t","a","l">>,
          <<"m","o","d","e","r","n">> >>],
    [label |-> "minimalist", keywords |-> <<
          <<"m","i","n","i","m","a","l","i","s","t">>,
          <<"s","i","m","p","l","e">>,
          <<"c","l","e","a","n">>,
          <<"b","a","s","i","c">>,
          <<"m","i","n","i","m","a","l">>,
          <<"e","l","e","g","a","n","t">> >>],
    [label |-> "retro", keywords |-> <<
          <<"r","e","t","r","o">>,
          <<"v","i","n","t","a","g","e">>,
          <<"c","l","a","s","s","i","c">>,
          <<"o","l","d","-","s","c","h","o","o","l">>,
          <<"8","-","b","i","t">>,
          <<"p","i","x","e","l">>,
          <<"n","o","s","t","a","l","g","i","c">> >>] >>

moods ==
  <<
    [label |-> "epic", keywords |-> <<
          <<"e","p","i","c">>,
          <<"d","r","a","m","a","t","i","c">>,
          <<"i","n","t","e","n","s","e">>,
          <<"p","o","w","e","r","f","u","l">>,
          <<"h","e","r","o","i","c">>,
          <<"g","r","a","n","d">>,
          <<"m","a","j","e","s","t","i","c">> >>],
    [label |-> "peaceful", keywords |-> <<
          <<"p","e","a","c","e","f","u","l">>,
          <<"c","a","l","m">>,
          <<"r","e","l","a","x","i","n","g">>,
          <<"s","e","r","e","n","e">>,
          <<"t","r","a","n","q","u","i","l">>,
          <<"g","e","n","t","l","e">>,
          <<"s","o","o","t","h","i","n","g">> >>],
    [label |-> "dark", keywords |-> <<
          <<"d","a","r","k">>,
          <<"m","y","s","t","e","r","i","o","u","s">>,
          <<"g","o","t","h","i","c">>,
          <<"s","i","n","i","s","t","e","r">>,
          <<"o","m","i","n","o","u","s">>,
          <<"s","h","a","d","o","w","y">>,
          <<"e","e","r","i","e">> >>],
    [label |-> "bright", keywords |-> <<
          <<"b","r","i","g","h","t">>,
          <<"c","h","e","e","r","f","u","l">>,
          <<"h","a","p","p","y">>,
          <<"v","i","b","r","a","n","t">>,
          <<"e","n","e","r","g","e","t","i","c">>,
          <<"p","o","s","i","t","i","v","e">>,
          <<"u","p","l","i","f","t","i","n","g">> >>],
    [label |-> "mysterious", keywords |-> <<
          <<"m","y","s","t","e","r","i","o","u","s">>,
          <<"e","n","i","g","m","a","t","i","c">>,
          <<"c","r","y","p","t","i","c">>,
          <<"h","i","d","d","e","n">>,
          <<"s","e","c","r","e","t">>,
          <<"u","n","k","n","o","w","n">> >>] >>

complexity_indicators ==
  <<
    [label |-> "simple", keywords |-> <<
          <<"s","i","m","p","l","e">>,
          <<"b","a","s","i","c">>,
          <<"e","a","s","y">>,
          <<"q","u","i","c","k">>,
          <<"m","i","n","i","m","a","l">>,
          <<"p","l","a","i","n">> >>],
    [label |-> "detailed", keywords |-> <<
          <<"d","e","t","a","i","l","e","d">>,
          <<"c","o","m","p","l","e","x">>,
          <<"i","n","t","r","i","c","a","t","e">>,
          <<"e","l","a","b","o","r","a","t","e">>,
          <<"s","o","p","h","i","s","t","i","c","a","t","e","d">>,
          <<"a","d","v","a","n","c","e","d">> >>],
    [label |-> "professional", keywords |-> <<
          <<"p","r","o","f","e","s","s","i","o","n","a","l">>,
          <<"h","i","g","h","-","q","u","a","l","i","t","y">>,
          <<"p","o","l","i","s","h","e","d">>,
          <<"r","e","f","i","n","e","d">>,
          <<"p","r","e","m","i","u","m">> >>] >>

stop_words ==
  {
    <<"a">>, <<"a","n">>, <<"t","h","e">>, <<"a","n","d">>,
    <<"o","r">>, <<"b","u","t">>, <<"i","n">>, <<"o","n">>,
    <<"a","t">>, <<"t","o">>, <<"f","o","r">>, <<"o","f">>,
    <<"w","i","t","h">>, <<"b","y">>, <<"i","s">>, <<"a","r","e">>,
    <<"w","a","s">>, <<"w","e","r","e">>, <<"b","e">>, <<"b","e","e","n">>,
    <<"b","e","i","n","g">>, <<"h","a","v","e">>, <<"h","a","s">>, <<"h","a","d">>,
    <<"d","o">>, <<"d","o","e","s">>, <<"d","i","d">>, <<"w","i","l","l">>,
    <<"w","o","u","l","d">>, <<"c","o","u","l","d">>, <<"s","h","o","u","l","d">>, <<"m","a","y">>,
    <<"m","i","g","h","t">>, <<"m","u","s","t">>, <<"c","a","n">>, <<"c","r","e","a","t","e">>,
    <<"m","a","k","e">>, <<"g","e","n","e","r","a","t","e">>, <<"b","u","i","l","d">> }

Phrases ==
  <<
    << <<"C","r","e","a","t","e">>,
       <<"a">>,
       <<"n","i","n","j","a">>,
       <<"c","h","a","r","a","c","t","e","r">>,
       <<"i","m","a","g","e">> >>,
    << <<"G","e","n","e","r","a","t","e">>,
       <<"a","n">>,
       <<"e","p","i","c">>,
       <<"s","p","a","c","e">>,
       <<"b","a","t","t","l","e">>,
       <<"v","i","d","e","o">> >>,
    << <<"M","a","k","e">>,
       <<"p","e","a","c","e","f","u","l">>,
       <<"f","o","r","e","s","t">>,
       <<"a","m","b","i","e","n","t">>,
       <<"m","u","s","i","c">> >>,
    << <<"D","e","s","i","g","n">>,
       <<"a">>,
       <<"m","i","n","i","m","a","l","i","s","t">>,
       <<"l","o","g","o">> >>,
    << <<"A","n","i","m","a","t","e">>,
       <<"a">>,
       <<"c","h","a","r","a","c","t","e","r">>,
       <<"w","a","l","k","i","n","g">>,
       <<"t","h","r","o","u","g","h">>,
       <<"a">>,
       <<"m","e","d","i","e","v","a","l">>,
       <<"c","a","s","t","l","e">> >>,
    << <<"n","i","n","j","a">>,
       <<"s","p","a","c","e">>,
       <<"k","n","i","g","h","t">>,
       <<"f","o","r","e","s","t">>,
       <<"o","c","e","a","n">> >>,
    << <<"e","p","i","c">>,
       <<"c","a","l","m">>,
       <<"m","y","s","t","e","r","i","o","u","s">>,
       <<"b","r","i","g","h","t">> >>,
    << <<"d","e","t","a","i","l","e","d">>,
       <<"c","a","r","t","o","o","n">>,
       <<"a","b","s","t","r","a","c","t">>,
       <<"s","i","m","p","l","e">>,
       <<"r","e","t","r","o">> >>,
    << <<"a","u","d","i","o">>,
       <<"v","i","d","e","o">>,
       <<"i","m","a","g","e">>,
       <<"p","r","o","f","e","s","s","i","o","n","a","l">>,
       <<"d","e","t","a","i","l","e","d">>,
       <<"s","i","m","p","l","e">> >>,
    << <<"r","e","t","r","o">>,
       <<"8","-","b","i","t">>,
       <<"s","c","i","-","f","i">>,
       <<"s","p","a","c","e","s","h","i","p">>,
       <<"s","p","r","i","t","e">> >>,
    << <<"C","o","m","p","o","s","e">>,
       <<"a","n">>,
       <<"e","p","i","c">>,
       <<"r","e","t","r","o">>,
       <<"s","p","a","c","e">>,
       <<"s","o","u","n","d","t","r","a","c","k">> >>,
    << <<"p","l","e","a","s","e">>,
       <<"s","h","o","w">>,
       <<"t","h","e">>,
       <<"s","e","v","e","n">>,
       <<"l","i","t","t","l","e">>,
       <<"r","e","d">>,
       <<"b","o","x","e","s">>,
       <<"u","n","d","e","r">>,
       <<"t","h","a","t">>,
       <<"w","i","n","d","o","w">>,
       <<"t","o","d","a","y">>,
       <<"a","g","a","i","n">> >>,
    << <<"p","o","l","i","s","h","e","d">>,
       <<"c","i","n","e","m","a","t","i","c">>,
       <<"t","r","a","i","l","e","r">> >> >>

(***************************************************************************)
(* The prompts the caller may pass: a run of filler words followed by a    *)
(* contiguous slice of one of the phrases.  The first five phrases are the *)
(* test prompts of media_ai.py; the others put one keyword of every label  *)
(* of a taxonomy side by side, exercise hyphenated tokens, and give a long *)
(* prompt without any taxonomy keyword.                                    *)
(***************************************************************************)
Space == <<" ">>

RECURSIVE Join(_)
Join(ws) ==
    IF ws = <<>> THEN <<>>
    ELSE IF Len(ws) = 1 THEN ws[1]
    ELSE ws[1] \o Space \o Join(Tail(ws))

Pad(n) == [i \in 1..n |-> <<"a">>]

Slices(ph) ==
    UNION { { SubSeq(ph, i, j) : j \in (i - 1)..Len(ph) } : i \in 1..(Len(ph) + 1) }

Prompts ==
    UNION { { Join(Pad(n) \o ws) : n \in 0..MaxPad, ws \in Slices(Phrases[k]) } :
            k \in 1..Len(Phrases) }

(***************************************************************************)
(* str primitives.                                                         *)
(***************************************************************************)
UpperCase ==
    [c \in {"A","B","C","D","E","F","G","H","I","J","K","L","M",
            "N","O","P","Q","R","S","T","U","V","W","X","Y","Z"} |->
       CASE c = "A" -> "a" [] c = "B" -> "b" [] c = "C" -> "c" [] c = "D" -> "d"
         [] c = "E" -> "e" [] c = "F" -> "f" [] c = "G" -> "g" [] c = "H" -> "h"
         [] c = "I" -> "i" [] c = "J" -> "j" [] c = "K" -> "k" [] c = "L" -> "l"
         [] c = "M" -> "m" [] c = "N" -> "n" [] c = "O" -> "o" [] c = "P" -> "p"
         [] c = "Q" -> "q" [] c = "R" -> "r" [] c = "S" -> "s" [] c = "T" -> "t"
         [] c = "U" -> "u" [] c = "V" -> "v" [] c = "W" -> "w" [] c = "X" -> "x"
         [] c = "Y" -> "y" [] c = "Z" -> "z"]

\* str.lower()
lower(s) ==
    [i \in 1..Len(s) |-> IF s[i] \in DOMAIN UpperCase THEN UpperCase[s[i]] ELSE s[i]]

\* `k in s` for two str
contains(s, k) ==
    \E i \in 1..(Len(s) - Len(k) + 1) :
        /\ s[i] = k[1]
        /\ SubSeq(s, i, i + Len(k) - 1) = k

\* the regular expression class \w
WordChars ==
    { "a","b","c","d","e","f","g","h","i","j","k","l","m",
      "n","o","p","q","r","s","t","u","v","w","x","y","z",
      "0","1","2","3","4","5","6","7","8","9","_" } \cup DOMAIN UpperCase

\* the maximal runs of characters of s that are in the set cs, in order
RECURSIVE runs(_, _, _, _)
runs(s, cs, i, cur) ==
    IF i > Len(s) THEN (IF cur = <<>> THEN <<>> ELSE <<cur>>)
    ELSE IF s[i] \in cs THEN runs(s, cs, i + 1, Append(cur, s[i]))
    ELSE (IF cur = <<>> THEN <<>> ELSE <<cur>>) \o runs(s, cs, i + 1, <<>>)

\* re.findall(r'\b\w+\b', s)
findall_words(s) == runs(s, WordChars, 1, <<>>)

\* str.split(): the runs of non-whitespace characters
Whitespace == {" "}
Chars == WordChars \cup Whitespace \cup {"-"}
split(s) == runs(s, Chars \ Whitespace, 1, <<>>)

Max(S) == CHOOSE x \in S : \A y \in S : y <= x
Min2(a, b) == IF a <= b THEN a ELSE b

(***************************************************************************)
(* The detectors.                                                          *)
(***************************************************************************)
\* scores[label] = sum(1 for keyword in keywords if keyword in prompt),
\* for the entries of a taxonomy in insertion order
keyword_scores(taxonomy, p) ==
    [e \in 1..Len(taxonomy) |->
        Cardinality({ k \in 1..Len(taxonomy[e].keywords) :
                        contains(p, taxonomy[e].keywords[k]) })]

\* max(scores.values())
max_value(sc) == Max({ sc[e] : e \in 1..Len(sc) })

\* max_key with the last of the maximal keys (a scan that compares with >=)
max_key_last(taxonomy, sc) ==
    LET last == CHOOSE e \in 1..Len(sc) :
                    /\ sc[e] = max_value(sc)
                    /\ \A d \in (e + 1)..Len(sc) : sc[d] < max_value(sc)
    IN  taxonomy[last].label

\* max(scores, key=scores.get): the first key, in insertion order, whose
\* value is the maximum
max_key(taxonomy, sc) ==
    LET first == CHOOSE e \in 1..Len(sc) :
                    /\ sc[e] = max_value(sc)
                    /\ \A d \in 1..(e - 1) : sc[d] < max_value(sc)
    IN  taxonomy[first].label

\* detect without the test max(scores.values()) == 0
detect_no_zero_check(taxonomy, sc, default) ==
    IF Len(sc) = 0 THEN default ELSE max_key(taxonomy, sc)

\* the tail shared by the five detectors
detect(taxonomy, sc, default) ==
    IF Len(sc) = 0 \/ max_value(sc) = 0 THEN default ELSE max_key(taxonomy, sc)

media_type_scores(p) == keyword_scores(media_types, p)
_detect_media_type(p) == detect(media_types, media_type_scores(p), "image")

theme_scores(p) == keyword_scores(themes, p)
_detect_theme(p) == detect(themes, theme_scores(p), "default")

style_scores(p) == keyword_scores(styles, p)
_detect_style(p) == detect(styles, style_scores(p), "default")

\* _detect_mood with the default label of the theme and style detectors
_detect_mood_wrong_default(p) == detect(moods, keyword_scores(moods, p), "default")

mood_scores(p) == keyword_scores(moods, p)
_detect_mood(p) == detect(moods, mood_scores(p), "neutral")

\* the index of a label in a taxonomy
index_of(taxonomy, label) == CHOOSE e \in 1..Len(taxonomy) : taxonomy[e].label = label

\* complexity_scores with <= 5 for < 5
complexity_scores_five(p) ==
    LET sc == keyword_scores(complexity_indicators, p)
        n  == Len(split(p))
        d  == index_of(complexity_indicators, "detailed")
        s  == index_of(complexity_indicators, "simple")
    IN  IF n > 10 THEN [sc EXCEPT ![d] = sc[d] + 1]
        ELSE IF n <= 5 THEN [sc EXCEPT ![s] = sc[s] + 1]
        ELSE sc

\* complexity_scores with the two length branches swapped
complexity_scores_swapped(p) ==
    LET sc == keyword_scores(complexity_indicators, p)
        n  == Len(split(p))
        d  == index_of(complexity_indicators, "detailed")
        s  == index_of(complexity_indicators, "simple")
    IN  IF n > 10 THEN [sc EXCEPT ![s] = sc[s] + 1]
        ELSE IF n < 5 THEN [sc EXCEPT ![d] = sc[d] + 1]
        ELSE sc

\* complexity_scores with >= 10 for > 10
complexity_scores_off_by_one(p) ==
    LET sc == keyword_scores(complexity_indicators, p)
        n  == Len(split(p))
        d  == index_of(complexity_indicators, "detailed")
        s  == index_of(complexity_indicators, "simple")
    IN  IF n >= 10 THEN [sc EXCEPT ![d] = sc[d] + 1]
        ELSE IF n < 5 THEN [sc EXCEPT ![s] = sc[s] + 1]
        ELSE sc

complexity_scores(p) ==
    LET sc == keyword_scores(complexity_indicators, p)
        n  == Len(split(p))
        d  == index_of(complexity_indicators, "detailed")
        s  == index_of(complexity_indicators, "simple")
    IN  IF n > 10 THEN [sc EXCEPT ![d] = sc[d] + 1]
        ELSE IF n < 5 THEN [sc EXCEPT ![s] = sc[s] + 1]
        ELSE sc
_detect_complexity(p) == detect(complexity_indicators, complexity_scores(p), "medium")

\* _extract_keywords with len(word) >= 2 for len(word) > 2
_extract_keywords_short(p) ==
    LET words    == findall_words(p)
        keep(w)  == w \notin stop_words /\ Len(w) >= 2
        keywords == SelectSeq(words, keep)
    IN  SubSeq(keywords, 1, Min2(10, Len(keywords)))

_extract_keywords(p) ==
    LET words    == findall_words(p)
        keep(w)  == w \notin stop_words /\ Len(w) > 2
        keywords == SelectSeq(words, keep)
    IN  SubSeq(keywords, 1, Min2(10, Len(keywords)))

\* _calculate_confidence without the else branch of the media-type base
_calculate_confidence_no_base(a) ==
    LET c1 == IF a.media_type # "image" THEN 3 ELSE 0
        c2 == IF a.theme # "default" THEN c1 + 2 ELSE c1
        c3 == IF a.style # "default" THEN c2 + 2 ELSE c2
        c4 == IF a.mood # "neutral" THEN c3 + 1 ELSE c3
        keyword_score == Min2(2 * Len(a.keywords), 2)
    IN  Min2(c4 + keyword_score, 10)

\* _calculate_confidence with the weight of the mood for the style
_calculate_confidence_style_weight(a) ==
    LET c1 == IF a.media_type # "image" THEN 3 ELSE 1
        c2 == IF a.theme # "default" THEN c1 + 2 ELSE c1
        c3 == IF a.style # "default" THEN c2 + 1 ELSE c2
        c4 == IF a.mood # "neutral" THEN c3 + 1 ELSE c3
        keyword_score == Min2(2 * Len(a.keywords), 2)
    IN  Min2(c4 + keyword_score, 10)

\* _calculate_confidence with the style test inverted
_calculate_confidence_inverted_style(a) ==
    LET c1 == IF a.media_type # "image" THEN 3 ELSE 1
        c2 == IF a.theme # "default" THEN c1 + 2 ELSE c1
        c3 == IF a.style = "default" THEN c2 + 2 ELSE c2
        c4 == IF a.mood # "neutral" THEN c3 + 1 ELSE c3
        keyword_score == Min2(2 * Len(a.keywords), 2)
    IN  Min2(c4 + keyword_score, 10)

_calculate_confidence(a) ==
    LET c1 == IF a.media_type # "image" THEN 3 ELSE 1
        c2 == IF a.theme # "default" THEN c1 + 2 ELSE c1
        c3 == IF a.style # "default" THEN c2 + 2 ELSE c2
        c4 == IF a.mood # "neutral" THEN c3 + 1 ELSE c3
        keyword_score == Min2(2 * Len(a.keywords), 2)
    IN  Min2(c4 + keyword_score, 10)

\* _determine_strategy with the theme tested before the complexity
_determine_strategy_theme_first(a) ==
    IF a.media_type = "image" THEN
        IF a.theme # "default" THEN "themed_svg_generation"
        ELSE IF a.complexity = "simple" THEN "svg_template"
        ELSE "procedural_svg"
    ELSE IF a.media_type = "video" THEN
        IF a.complexity = "simple" THEN "css_animation"
        ELSE "advanced_css_animation"
    ELSE IF a.media_type = "audio" THEN
        IF \E i \in 1..Len(a.keywords) : a.keywords[i] = <<"m","u","s","i","c">>
        THEN "web_audio_composition"
        ELSE "web_audio_effects"
    ELSE "default_generation"

_determine_strategy(a) ==
    IF a.media_type = "image" THEN
        IF a.complexity = "simple" THEN "svg_template"
        ELSE IF a.theme # "default" THEN "themed_svg_generation"
        ELSE "procedural_svg"
    ELSE IF a.media_type = "video" THEN
        IF a.complexity = "simple" THEN "css_animation"
        ELSE "advanced_css_animation"
    ELSE IF a.media_type = "audio" THEN
        IF \E i \in 1..Len(a.keywords) : a.keywords[i] = <<"m","u","s","i","c">>
        THEN "web_audio_composition"
        ELSE "web_audio_effects"
    ELSE "default_generation"

\* _estimate_generation_time with 3 seconds added for 'professional'
_estimate_generation_time_three(a) ==
    LET base_time == IF a.media_type = "video" THEN 2 ELSE 1
    IN  IF a.complexity = "detailed" THEN base_time + 1
        ELSE IF a.complexity = "professional" THEN base_time + 3
        ELSE base_time

_estimate_generation_time(a) ==
    LET base_time == IF a.media_type = "video" THEN 2 ELSE 1
    IN  IF a.complexity = "detailed" THEN base_time + 1
        ELSE IF a.complexity = "professional" THEN base_time + 2
        ELSE base_time

_recommend_format(a) ==
    IF a.media_type = "image" THEN
        IF a.complexity = "simple" THEN "svg" ELSE "svg_with_css"
    ELSE IF a.media_type = "video" THEN "css_animation_html"
    ELSE IF a.media_type = "audio" THEN "web_audio_javascript"
    ELSE "svg"

\* analyze_prompt with the time of the call added to the time estimate
analyze_prompt_clocked(p, t) ==
    LET prompt_lower == lower(p)
        a0 == [ original_prompt     |-> p,
                media_type          |-> _detect_media_type(prompt_lower),
                theme               |-> _detect_theme(prompt_lower),
                style               |-> _detect_style(prompt_lower),
                mood                |-> _detect_mood(prompt_lower),
                complexity          |-> _detect_complexity(prompt_lower),
                keywords            |-> _extract_keywords(prompt_lower),
                confidence          |-> 0,
                generation_strategy |-> "",
                estimated_time      |-> 0,
                recommended_format  |-> "",
                analysis_timestamp  |-> t ]
        a1 == [a0 EXCEPT !.confidence = _calculate_confidence(a0)]
        a2 == [a1 EXCEPT !.generation_strategy = _determine_strategy(a1)]
        a3 == [a2 EXCEPT !.estimated_time = _estimate_generation_time(a2) + t]
    IN  [a3 EXCEPT !.recommended_format = _recommend_format(a3)]

\* analyze_prompt(prompt), called when the clock reads t
analyze_prompt(p, t) ==
    LET prompt_lower == lower(p)
        a0 == [ original_prompt     |-> p,
                media_type          |-> _detect_media_type(prompt_lower),
                theme               |-> _detect_theme(prompt_lower),
                style               |-> _detect_style(prompt_lower),
                mood                |-> _detect_mood(prompt_lower),
                complexity          |-> _detect_complexity(prompt_lower),
                keywords            |-> _extract_keywords(prompt_lower),
                confidence          |-> 0,
                generation_strategy |-> "",
                estimated_time      |-> 0,
                recommended_format  |-> "",
                analysis_timestamp  |-> t ]
        a1 == [a0 EXCEPT !.confidence = _calculate_confidence(a0)]
        a2 == [a1 EXCEPT !.generation_strategy = _determine_strategy(a1)]
        a3 == [a2 EXCEPT !.estimated_time = _estimate_generation_time(a2)]
    IN  [a3 EXCEPT !.recommended_format = _recommend_format(a3)]

\* the `scores` locals of the five detectors for a case-folded prompt
detector_scores(p) ==
    [ media_type |-> media_type_scores(p),
      theme      |-> theme_scores(p),
      style      |-> style_scores(p),
      mood       |-> mood_scores(p),
      complexity |-> complexity_scores(p) ]

(***************************************************************************)
(* The state machine: one MediaAI instance, a caller that holds a prompt   *)
(* and calls analyze_prompt on it again and again while the clock runs.    *)
(***************************************************************************)
None == [none |-> TRUE]

\* health_check.py: the keys of generation_stats are str, as the f-string of
\* record_generation builds one of them
k_images_generated == <<"i","m","a","g","e","s","_","g","e","n","e","r","a","t","e","d">>

k_videos_generated == <<"v","i","d","e","o","s","_","g","e","n","e","r","a","t","e","d">>

k_audio_generated == <<"a","u","d","i","o","_","g","e","n","e","r","a","t","e","d">>

k_total_requests == <<"t","o","t","a","l","_","r","e","q","u","e","s","t","s">>

k_successful_requests == <<"s","u","c","c","e","s","s","f","u","l","_","r","e","q","u","e","s","t","s">>

k_failed_requests == <<"f","a","i","l","e","d","_","r","e","q","u","e","s","t","s">>

k_average_generation_time == <<"a","v","e","r","a","g","e","_","g","e","n","e","r","a","t","i","o","n","_","t","i","m","e">>

k_last_generation_time == <<"l","a","s","t","_","g","e","n","e","r","a","t","i","o","n","_","t","i","m","e">>

\* a float that is a quotient of integers, in lowest terms
Ratio(n, d) == [num |-> n, den |-> d]

\* HealthChecker.__init__
HealthChecker_init ==
    [ generation_stats |->
        (k_images_generated :> 0) @@ (k_videos_generated :> 0)
          @@ (k_audio_generated :> 0) @@ (k_total_requests :> 0)
          @@ (k_successful_requests :> 0) @@ (k_failed_requests :> 0)
          @@ (k_average_generation_time :> Ratio(0, 1))
          @@ (k_last_generation_time :> None),
      performance_history |-> <<>>,
      error_log |-> <<>> ]

\* a HealthChecker no generation was recorded with
InitChecker ==
    /\ generation_stats = HealthChecker_init.generation_stats
    /\ performance_history = <<>>
    /\ error_log = <<>>
    /\ recorded = None

\* the threads of the server and of the callers
Threads == {"t1", "t2"}

\* MediaAI.__init__: the five taxonomies
MediaAI_init ==
    [ media_types           |-> media_types,
      themes                |-> themes,
      styles                |-> styles,
      moods                 |-> moods,
      complexity_indicators |-> complexity_indicators ]

\* a thread between two requests
IdleThread ==
    [ pc |-> "idle", data |-> None, loaded |-> 0, counter |-> "",
      response |-> None, handled |-> 0, completed |-> 0 ]

\* a caller between two calls, holding no analysis
IdleCall ==
    [ pc |-> "idle", op |-> "", pending |-> <<>>, analysis |-> None,
      batch |-> <<>>, held |-> <<>>, returned |-> <<>>, out |-> None,
      made |-> 0 ]

\* no request and no call in progress
InitIdle ==
    /\ threads = [th \in Threads |-> IdleThread]
    /\ media_ai = MediaAI_init
    /\ calls = [th \in Threads |-> IdleCall]

\* app.py as its import leaves it, with the generators loaded
InitApp ==
    /\ request = None
    /\ response = None
    /\ service_metrics = [ images_generated |-> 0,
                           videos_generated |-> 0,
                           audio_generated  |-> 0,
                           total_requests   |-> 0,
                           active_users     |-> {} ]
    /\ SYSTEM_STATUS = "full_media_ai"
    /\ gallery = None

Init ==
    /\ prompt \in Prompts
    /\ now = 0
    /\ analysis = None
    /\ previous = None
    /\ scores = None
    /\ result = None
    /\ InitApp
    /\ InitChecker
    /\ InitIdle

\* a call of MediaAI.analyze_prompt(prompt)
AnalyzePrompt ==
    /\ analysis' = analyze_prompt(prompt, now)
    /\ scores' = detector_scores(lower(prompt))
    /\ previous' = analysis
    /\ UNCHANGED <<prompt, now, result, appvars, healthvars, concvars>>

\* time passes
Tick ==
    /\ now < MaxClock
    /\ now' = now + 1
    /\ UNCHANGED <<prompt, analysis, previous, scores, result, appvars, healthvars, concvars>>

Next == AnalyzePrompt \/ Tick

Spec == Init /\ [][Next]_vars

(***************************************************************************)
(* dict and list primitives of the generators.                             *)
(***************************************************************************)
\* d.get(k, default)
get(d, k, default) == IF k \in DOMAIN d THEN d[k] ELSE default

\* d.update(m)
update(d, m) ==
    [k \in DOMAIN d \cup DOMAIN m |-> IF k \in DOMAIN m THEN m[k] ELSE d[k]]

\* any(word in p for word in words)
any_in(words, p) == \E i \in 1..Len(words) : contains(p, words[i])

\* `w in keywords` for a list of str
in_list(w, keywords) == \E i \in 1..Len(keywords) : keywords[i] = w

\* an if/elif chain of any(...) tests that ends in `else: return fallback`
RECURSIVE first_match(_, _, _)
first_match(chain, p, fallback) ==
    IF chain = <<>> THEN fallback
    ELSE IF any_in(chain[1].words, p) THEN chain[1].returns
    ELSE first_match(Tail(chain), p, fallback)

\* an exception that leaves the function f
Raise(e, f) == [raised |-> e, where |-> f]
Raised(r) == "raised" \in DOMAIN r

(***************************************************************************)
(* VideoGenerator.                                                         *)
(***************************************************************************)
animation_types ==
    { "character_walk", "character_attack", "character_idle", "environment_flow",
      "ui_transition", "particle_effect", "text_reveal", "logo_animation" }

duration_presets ==
    [quick |-> 2, short |-> 5, medium |-> 10, long |-> 15, extended |-> 30]

animation_cues ==
    << [returns |-> "character_walk",
          words |-> <<<<"w","a","l","k">>, <<"w","a","l","k","i","n","g">>, <<"m","o","v","e">>, <<"m","o","v","i","n","g">>, <<"r","u","n">>, <<"r","u","n","n","i","n","g">>>>],
       [returns |-> "character_attack",
          words |-> <<<<"a","t","t","a","c","k">>, <<"f","i","g","h","t","i","n","g">>, <<"b","a","t","t","l","e">>, <<"c","o","m","b","a","t">>, <<"s","t","r","i","k","e">>>>],
       [returns |-> "character_idle",
          words |-> <<<<"i","d","l","e">>, <<"s","t","a","n","d","i","n","g">>, <<"b","r","e","a","t","h","i","n","g">>, <<"w","a","i","t","i","n","g">>>>],
       [returns |-> "environment_flow",
          words |-> <<<<"f","l","o","w">>, <<"f","l","o","w","i","n","g">>, <<"w","a","t","e","r">>, <<"w","i","n","d">>, <<"p","a","r","t","i","c","l","e","s">>>>],
       [returns |-> "ui_transition",
          words |-> <<<<"t","r","a","n","s","i","t","i","o","n">>, <<"f","a","d","e">>, <<"s","l","i","d","e">>, <<"u","i">>, <<"i","n","t","e","r","f","a","c","e">>>>],
       [returns |-> "particle_effect",
          words |-> <<<<"p","a","r","t","i","c","l","e">>, <<"e","f","f","e","c","t">>, <<"m","a","g","i","c">>, <<"s","p","a","r","k","l","e">>, <<"e","x","p","l","o","s","i","o","n">>>>],
       [returns |-> "text_reveal",
          words |-> <<<<"t","e","x","t">>, <<"t","i","t","l","e">>, <<"r","e","v","e","a","l">>, <<"t","y","p","e","w","r","i","t","e","r">>>>],
       [returns |-> "logo_animation",
          words |-> <<<<"l","o","g","o">>, <<"b","r","a","n","d">>, <<"i","n","t","r","o">>, <<"o","p","e","n","i","n","g">>>>] >>

\* _determine_animation_type that looks at the last cue group first
_determine_animation_type_last_first(keywords, p) ==
    LET n == Len(animation_cues)
    IN  first_match([i \in 1..n |-> animation_cues[n + 1 - i]], lower(p), "character_idle")

_determine_animation_type(keywords, p) ==
    first_match(animation_cues, lower(p), "character_idle")

\* VideoGenerator._determine_duration without the explicit duration keywords
VideoGenerator_determine_duration_by_complexity(keywords, p, complexity) ==
    IF complexity = "simple" THEN duration_presets.short
    ELSE IF complexity = "detailed" THEN duration_presets.medium
    ELSE IF complexity = "professional" THEN duration_presets.long
    ELSE duration_presets.medium

VideoGenerator_determine_duration(keywords, p, complexity) ==
    LET prompt_lower == lower(p)
    IN  IF any_in(<<<<"q","u","i","c","k">>, <<"f","a","s","t">>, <<"b","r","i","e","f">>>>, prompt_lower)
        THEN duration_presets.quick
        ELSE IF any_in(<<<<"s","h","o","r","t">>>>, prompt_lower)
        THEN duration_presets.short
        ELSE IF any_in(<<<<"l","o","n","g">>, <<"e","x","t","e","n","d","e","d">>, <<"d","e","t","a","i","l","e","d">>>>, prompt_lower)
        THEN duration_presets.long
        ELSE IF complexity = "simple" THEN duration_presets.short
        ELSE IF complexity = "detailed" THEN duration_presets.medium
        ELSE IF complexity = "professional" THEN duration_presets.long
        ELSE duration_presets.medium

VideoGenerator_color_schemes ==
    [ ninja      |-> [primary |-> "#2C3E50", secondary |-> "#E74C3C", accent |-> "#F39C12", background |-> "#34495E", text |-> "#ECF0F1"],
      space      |-> [primary |-> "#0F3460", secondary |-> "#E94560", accent |-> "#16213E", background |-> "#0F0F23", text |-> "#F0F0F0"],
      medieval   |-> [primary |-> "#8B4513", secondary |-> "#DAA520", accent |-> "#CD853F", background |-> "#654321", text |-> "#F5DEB3"],
      forest     |-> [primary |-> "#228B22", secondary |-> "#FFD700", accent |-> "#32CD32", background |-> "#006400", text |-> "#F0FFF0"],
      underwater |-> [primary |-> "#008B8B", secondary |-> "#20B2AA", accent |-> "#48D1CC", background |-> "#006666", text |-> "#E0FFFF"],
      default    |-> [primary |-> "#3498DB", secondary |-> "#E74C3C", accent |-> "#F39C12", background |-> "#2C3E50", text |-> "#ECF0F1"] ]

\* _get_color_scheme with the first scheme for an unknown theme
_get_color_scheme_first(theme) ==
    get(VideoGenerator_color_schemes, theme, VideoGenerator_color_schemes["ninja"])

_get_color_scheme(theme) ==
    get(VideoGenerator_color_schemes, theme, VideoGenerator_color_schemes["default"])

\* the HTML page is modelled by the generator that wrote it and its arguments
_generate_animation(p, theme, style, complexity, keywords, mood, animation_type, duration) ==
    LET colors == _get_color_scheme(theme)
        animation_generator ==
            IF animation_type \in animation_types THEN animation_type ELSE "character_idle"
    IN  [ success         |-> TRUE,
          format          |-> "html_css_animation",
          content         |-> [generator |-> animation_generator, colors |-> colors,
                               duration |-> duration],
          colors_used     |-> colors,
          technical_specs |-> [duration |-> duration, animation_type |-> animation_type] ]

VideoGenerator_generate(p, a, t) ==
    LET theme          == get(a, "theme", "default")
        style          == get(a, "style", "default")
        complexity     == get(a, "complexity", "medium")
        keywords       == get(a, "keywords", <<>>)
        mood           == get(a, "mood", "neutral")
        animation_type == _determine_animation_type(keywords, p)
        duration       == VideoGenerator_determine_duration(keywords, p, complexity)
        r == _generate_animation(p, theme, style, complexity, keywords, mood,
                                 animation_type, duration)
    IN  update(r, [ generation_method |-> "css_animation",
                    theme             |-> theme,
                    style             |-> style,
                    complexity        |-> complexity,
                    animation_type    |-> animation_type,
                    duration          |-> duration,
                    mood              |-> mood,
                    prompt            |-> p,
                    timestamp         |-> t,
                    generator_version |-> "3.0.0" ])

(***************************************************************************)
(* AudioGenerator.                                                         *)
(***************************************************************************)
music_styles ==
    [ epic       |-> [tempo |-> 120, key |-> "C",  scale |-> "minor", mood |-> "dramatic"],
      peaceful   |-> [tempo |-> 80,  key |-> "G",  scale |-> "major", mood |-> "calm"],
      dark       |-> [tempo |-> 100, key |-> "D",  scale |-> "minor", mood |-> "mysterious"],
      bright     |-> [tempo |-> 140, key |-> "C",  scale |-> "major", mood |-> "happy"],
      mysterious |-> [tempo |-> 90,  key |-> "F#", scale |-> "minor", mood |-> "enigmatic"] ]

audio_cues ==
    << [returns |-> "music",
          words |-> <<<<"m","u","s","i","c">>, <<"s","o","n","g">>, <<"m","e","l","o","d","y">>, <<"s","o","u","n","d","t","r","a","c","k">>, <<"t","h","e","m","e">>>>],
       [returns |-> "sound_effect",
          words |-> <<<<"e","f","f","e","c","t">>, <<"s","o","u","n","d">>, <<"s","f","x">>, <<"n","o","i","s","e">>>>],
       [returns |-> "ambient",
          words |-> <<<<"a","m","b","i","e","n","t">>, <<"a","t","m","o","s","p","h","e","r","e">>, <<"b","a","c","k","g","r","o","u","n","d">>>>],
       [returns |-> "voice",
          words |-> <<<<"v","o","i","c","e">>, <<"s","p","e","e","c","h">>, <<"n","a","r","r","a","t","i","o","n">>>>] >>

_determine_audio_type(keywords, p) == first_match(audio_cues, lower(p), "music")

AudioGenerator_determine_duration(keywords, p, complexity) ==
    LET prompt_lower == lower(p)
    IN  IF any_in(<<<<"s","h","o","r","t">>, <<"b","r","i","e","f">>, <<"q","u","i","c","k">>>>, prompt_lower) THEN 10
        ELSE IF any_in(<<<<"l","o","n","g">>, <<"e","x","t","e","n","d","e","d">>>>, prompt_lower) THEN 60
        ELSE IF any_in(<<<<"l","o","o","p">>, <<"b","a","c","k","g","r","o","u","n","d">>>>, prompt_lower) THEN 30
        ELSE IF complexity = "simple" THEN 15
        ELSE IF complexity = "detailed" THEN 45
        ELSE IF complexity = "professional" THEN 60
        ELSE 30

\* _generate_music with the style of the first entry for every mood
_generate_music_first_style(p, theme, mood, duration, complexity, keywords) ==
    LET music_style == music_styles["epic"]
    IN  [ success         |-> TRUE,
          format          |-> "web_audio_javascript",
          content         |-> [generator |-> "music", style |-> music_style,
                               duration |-> duration],
          music_style     |-> music_style,
          technical_specs |-> [duration |-> duration, tempo |-> music_style.tempo,
                               key |-> music_style.key, scale |-> music_style.scale] ]

_generate_music(p, theme, mood, duration, complexity, keywords) ==
    LET music_style == get(music_styles, mood, music_styles["peaceful"])
    IN  [ success         |-> TRUE,
          format          |-> "web_audio_javascript",
          content         |-> [generator |-> "music", style |-> music_style,
                               duration |-> duration],
          music_style     |-> music_style,
          technical_specs |-> [duration |-> duration, tempo |-> music_style.tempo,
                               key |-> music_style.key, scale |-> music_style.scale] ]

_generate_sound_effect(p, theme, keywords, complexity) ==
    LET effect_type ==
            IF in_list(<<"c","o","i","n">>, keywords) \/ in_list(<<"p","i","c","k","u","p">>, keywords)
            THEN "coin"
            ELSE IF in_list(<<"j","u","m","p">>, keywords) \/ in_list(<<"b","o","u","n","c","e">>, keywords)
            THEN "jump"
            ELSE IF in_list(<<"e","x","p","l","o","s","i","o","n">>, keywords)
                    \/ in_list(<<"b","l","a","s","t">>, keywords)
            THEN "explosion"
            ELSE IF in_list(<<"l","a","s","e","r">>, keywords) \/ in_list(<<"s","h","o","o","t">>, keywords)
            THEN "laser"
            ELSE "click"
    IN  [ success     |-> TRUE,
          format      |-> "web_audio_javascript",
          content     |-> [generator |-> "sound_effect", effect_type |-> effect_type],
          effect_type |-> effect_type ]

_generate_ambient(p, theme, mood, duration, complexity) ==
    [ success      |-> TRUE,
      format       |-> "web_audio_javascript",
      content      |-> [generator |-> "ambient", theme |-> theme, duration |-> duration],
      ambient_type |-> theme ]

_generate_audio(p, theme, style, complexity, keywords, mood, audio_type, duration) ==
    IF audio_type = "music"
    THEN _generate_music(p, theme, mood, duration, complexity, keywords)
    ELSE IF audio_type = "sound_effect"
    THEN _generate_sound_effect(p, theme, keywords, complexity)
    ELSE IF audio_type = "ambient"
    THEN _generate_ambient(p, theme, mood, duration, complexity)
    ELSE _generate_music(p, theme, mood, duration, complexity, keywords)

AudioGenerator_generate(p, a, t) ==
    LET theme      == get(a, "theme", "default")
        style      == get(a, "style", "default")
        complexity == get(a, "complexity", "medium")
        keywords   == get(a, "keywords", <<>>)
        mood       == get(a, "mood", "neutral")
        audio_type == _determine_audio_type(keywords, p)
        duration   == AudioGenerator_determine_duration(keywords, p, complexity)
        r == _generate_audio(p, theme, style, complexity, keywords, mood,
                             audio_type, duration)
    IN  update(r, [ generation_method |-> "web_audio_api",
                    theme             |-> theme,
                    style             |-> style,
                    complexity        |-> complexity,
                    audio_type        |-> audio_type,
                    duration          |-> duration,
                    mood              |-> mood,
                    prompt            |-> p,
                    timestamp         |-> t,
                    generator_version |-> "3.0.0" ])

(***************************************************************************)
(* ImageGenerator.                                                         *)
(***************************************************************************)
color_schemes ==
    [ ninja      |-> [primary |-> "#2C3E50", secondary |-> "#E74C3C", accent |-> "#F39C12", background |-> "#34495E", text |-> "#ECF0F1"],
      space      |-> [primary |-> "#0F3460", secondary |-> "#E94560", accent |-> "#16213E", background |-> "#0F0F23", text |-> "#F0F0F0"],
      medieval   |-> [primary |-> "#8B4513", secondary |-> "#DAA520", accent |-> "#CD853F", background |-> "#654321", text |-> "#F5DEB3"],
      forest     |-> [primary |-> "#228B22", secondary |-> "#FFD700", accent |-> "#32CD32", background |-> "#006400", text |-> "#F0FFF0"],
      underwater |-> [primary |-> "#008B8B", secondary |-> "#20B2AA", accent |-> "#48D1CC", background |-> "#006666", text |-> "#E0FFFF"],
      default    |-> [primary |-> "#3498DB", secondary |-> "#E74C3C", accent |-> "#F39C12", background |-> "#2C3E50", text |-> "#ECF0F1"] ]

\* the templates, each with the number of arguments its signature takes
character_templates ==
    [humanoid |-> 3, warrior |-> 3, mage |-> 3, creature |-> 3, robot |-> 3]

environment_templates ==
    [landscape |-> 4, interior |-> 3, abstract |-> 3, pattern |-> 3, ui_element |-> 3]

\* templates[name](*args): the SVG text is modelled by the template that wrote
\* it and its colors; a call with the wrong number of arguments raises
call_template(templates, name, args) ==
    IF Len(args) = templates[name]
    THEN [template |-> name, colors |-> args[1]]
    ELSE Raise("TypeError", name)

image_cues ==
    << [returns |-> "character",
          words |-> <<<<"c","h","a","r","a","c","t","e","r">>, <<"p","e","r","s","o","n">>, <<"h","e","r","o">>, <<"w","a","r","r","i","o","r">>, <<"n","i","n","j","a">>, <<"m","a","g","e">>, <<"k","n","i","g","h","t">>, <<"r","o","b","o","t">>, <<"c","r","e","a","t","u","r","e">>>>],
       [returns |-> "environment",
          words |-> <<<<"b","a","c","k","g","r","o","u","n","d">>, <<"l","a","n","d","s","c","a","p","e">>, <<"s","c","e","n","e">>, <<"e","n","v","i","r","o","n","m","e","n","t">>, <<"f","o","r","e","s","t">>, <<"c","a","s","t","l","e">>, <<"s","p","a","c","e">>, <<"r","o","o","m">>>>],
       [returns |-> "ui_element",
          words |-> <<<<"b","u","t","t","o","n">>, <<"i","c","o","n">>, <<"l","o","g","o">>, <<"i","n","t","e","r","f","a","c","e">>, <<"u","i">>, <<"m","e","n","u">>, <<"b","a","d","g","e">>, <<"s","y","m","b","o","l">>>>] >>

\* _determine_image_type with the environment words tested first
_determine_image_type_environment_first(keywords, p) ==
    first_match(<<image_cues[2], image_cues[1], image_cues[3]>>, lower(p), "abstract")

_determine_image_type(keywords, p) == first_match(image_cues, lower(p), "abstract")

_generate_character(p, theme, style, complexity, keywords) ==
    LET colors == get(color_schemes, theme, color_schemes["default"])
        char_type ==
            IF in_list(<<"w","a","r","r","i","o","r">>, keywords)
               \/ in_list(<<"k","n","i","g","h","t">>, keywords)
            THEN "warrior"
            ELSE IF in_list(<<"m","a","g","e">>, keywords)
                    \/ in_list(<<"w","i","z","a","r","d">>, keywords)
            THEN "mage"
            ELSE IF in_list(<<"r","o","b","o","t">>, keywords)
                    \/ in_list(<<"a","n","d","r","o","i","d">>, keywords)
            THEN "robot"
            ELSE IF in_list(<<"c","r","e","a","t","u","r","e">>, keywords)
                    \/ in_list(<<"m","o","n","s","t","e","r">>, keywords)
            THEN "creature"
            ELSE "humanoid"
        svg_content == call_template(character_templates, char_type,
                                     <<colors, complexity, keywords>>)
    IN  IF Raised(svg_content) THEN svg_content
        ELSE [ success        |-> TRUE,
               format         |-> "svg",
               content        |-> svg_content,
               character_type |-> char_type,
               colors_used    |-> colors ]

_generate_environment(p, theme, style, complexity, keywords) ==
    LET colors == get(color_schemes, theme, color_schemes["default"])
        env_type ==
            IF in_list(<<"i","n","t","e","r","i","o","r">>, keywords)
               \/ in_list(<<"r","o","o","m">>, keywords)
               \/ in_list(<<"i","n","d","o","o","r">>, keywords)
            THEN "interior"
            ELSE IF in_list(<<"a","b","s","t","r","a","c","t">>, keywords)
                    \/ in_list(<<"p","a","t","t","e","r","n">>, keywords)
            THEN "abstract"
            ELSE "landscape"
        svg_content == call_template(environment_templates, env_type,
                                     <<colors, complexity, keywords, theme>>)
    IN  IF Raised(svg_content) THEN svg_content
        ELSE [ success          |-> TRUE,
               format           |-> "svg",
               content          |-> svg_content,
               environment_type |-> env_type,
               colors_used      |-> colors ]

_generate_ui_element(p, theme, style, complexity, keywords) ==
    LET colors == get(color_schemes, theme, color_schemes["default"])
        svg_content == call_template(environment_templates, "ui_element",
                                     <<colors, complexity, keywords>>)
    IN  IF Raised(svg_content) THEN svg_content
        ELSE [ success      |-> TRUE,
               format       |-> "svg",
               content      |-> svg_content,
               element_type |-> "ui_component",
               colors_used  |-> colors ]

_generate_abstract(p, theme, style, complexity, keywords) ==
    LET colors == get(color_schemes, theme, color_schemes["default"])
        svg_content == call_template(environment_templates, "abstract",
                                     <<colors, complexity, keywords>>)
    IN  IF Raised(svg_content) THEN svg_content
        ELSE [ success     |-> TRUE,
               format      |-> "svg",
               content     |-> svg_content,
               art_type    |-> "abstract",
               colors_used |-> colors ]

ImageGenerator_generate(p, a, t) ==
    LET theme      == get(a, "theme", "default")
        style      == get(a, "style", "default")
        complexity == get(a, "complexity", "medium")
        keywords   == get(a, "keywords", <<>>)
        image_type == _determine_image_type(keywords, p)
        r == IF image_type = "character"
             THEN _generate_character(p, theme, style, complexity, keywords)
             ELSE IF image_type = "environment"
             THEN _generate_environment(p, theme, style, complexity, keywords)
             ELSE IF image_type = "ui_element"
             THEN _generate_ui_element(p, theme, style, complexity, keywords)
             ELSE _generate_abstract(p, theme, style, complexity, keywords)
    IN  IF Raised(r) THEN r
        ELSE update(r, [ generation_method |-> "procedural_svg",
                         theme             |-> theme,
                         style             |-> style,
                         complexity        |-> complexity,
                         image_type        |-> image_type,
                         prompt            |-> p,
                         timestamp         |-> t,
                         generator_version |-> "3.0.0" ])

(***************************************************************************)
(* app.py: the /api/generate endpoint.                                     *)
(***************************************************************************)
\* str.strip()
RECURSIVE lstrip(_)
lstrip(s) == IF s # <<>> /\ s[1] \in Whitespace THEN lstrip(Tail(s)) ELSE s

RECURSIVE rstrip(_)
rstrip(s) ==
    IF s # <<>> /\ s[Len(s)] \in Whitespace THEN rstrip(SubSeq(s, 1, Len(s) - 1)) ELSE s

strip(s) == rstrip(lstrip(s))

\* the artifacts of the fallback system are modelled by the function that wrote
\* them and the branch it took
generate_svg_image(p, theme) ==
    LET svg_themes ==
            [ ninja    |-> [primary |-> "#2C3E50", secondary |-> "#E74C3C", accent |-> "#F39C12"],
              space    |-> [primary |-> "#0F3460", secondary |-> "#E94560", accent |-> "#16213E"],
              medieval |-> [primary |-> "#8B4513", secondary |-> "#DAA520", accent |-> "#CD853F"],
              forest   |-> [primary |-> "#228B22", secondary |-> "#FFD700", accent |-> "#32CD32"],
              default  |-> [primary |-> "#3498DB", secondary |-> "#E74C3C", accent |-> "#F39C12"] ]
        colors == get(svg_themes, theme, svg_themes["default"])
        branch ==
            IF any_in(<<<<"c","h","a","r","a","c","t","e","r">>, <<"p","e","r","s","o","n">>, <<"h","e","r","o">>, <<"w","a","r","r","i","o","r">>, <<"n","i","n","j","a">>>>,
                      lower(p))
            THEN "character"
            ELSE IF any_in(<<<<"b","a","c","k","g","r","o","u","n","d">>, <<"e","n","v","i","r","o","n","m","e","n","t">>, <<"l","a","n","d","s","c","a","p","e">>, <<"s","c","e","n","e">>>>,
                           lower(p))
            THEN "background"
            ELSE "default"
    IN  [generator |-> "generate_svg_image", branch |-> branch, colors |-> colors]

generate_css_animation(p) ==
    LET branch ==
            IF any_in(<<<<"c","h","a","r","a","c","t","e","r">>, <<"p","e","r","s","o","n">>, <<"w","a","l","k">>, <<"m","o","v","e">>>>, lower(p))
            THEN "character"
            ELSE IF any_in(<<<<"b","a","c","k","g","r","o","u","n","d">>, <<"e","n","v","i","r","o","n","m","e","n","t">>, <<"s","c","e","n","e">>>>, lower(p))
            THEN "background"
            ELSE "default"
    IN  [generator |-> "generate_css_animation", branch |-> branch]

generate_video_html(p, css_animation) ==
    [ generator |-> "generate_video_html",
      title     |-> SubSeq(p, 1, Min2(Len(p), 50)),
      css       |-> css_animation ]

generate_web_audio(p) ==
    LET branch ==
            IF any_in(<<<<"e","p","i","c">>, <<"b","a","t","t","l","e">>, <<"i","n","t","e","n","s","e">>, <<"d","r","a","m","a","t","i","c">>>>, lower(p))
            THEN "epic"
            ELSE IF any_in(<<<<"p","e","a","c","e","f","u","l">>, <<"c","a","l","m">>, <<"a","m","b","i","e","n","t">>, <<"r","e","l","a","x","i","n","g">>>>, lower(p))
            THEN "peaceful"
            ELSE "default"
    IN  [generator |-> "generate_web_audio", branch |-> branch]

\* the three fallbacks and the three generate_*_ai return the dict of the
\* response together with service_metrics as they leave it; `error` is None
\* or the exception whose text str(e) the caller passes
generate_image_fallback(p, user_id, error, metrics) ==
    LET prompt_lower == lower(p)
        theme == IF contains(prompt_lower, <<"n","i","n","j","a">>) THEN "ninja"
                 ELSE IF contains(prompt_lower, <<"s","p","a","c","e">>) THEN "space"
                 ELSE IF contains(prompt_lower, <<"m","e","d","i","e","v","a","l">>) THEN "medieval"
                 ELSE IF contains(prompt_lower, <<"f","o","r","e","s","t">>) THEN "forest"
                 ELSE "default"
    IN  [ result |-> [ success       |-> TRUE,
                       type          |-> "image",
                       format        |-> "svg",
                       content       |-> generate_svg_image(p, theme),
                       prompt        |-> p,
                       theme         |-> theme,
                       fallback_used |-> error # None,
                       error         |-> error ],
          metrics |-> [metrics EXCEPT !.images_generated = @ + 1] ]

generate_video_fallback(p, user_id, error, metrics) ==
    LET css_animation == generate_css_animation(p)
    IN  [ result |-> [ success       |-> TRUE,
                       type          |-> "video",
                       format        |-> "css_animation",
                       css           |-> css_animation,
                       html          |-> generate_video_html(p, css_animation),
                       prompt        |-> p,
                       fallback_used |-> error # None,
                       error         |-> error ],
          metrics |-> [metrics EXCEPT !.videos_generated = @ + 1] ]

generate_audio_fallback(p, user_id, error, metrics) ==
    [ result |-> [ success       |-> TRUE,
                   type          |-> "audio",
                   format        |-> "web_audio",
                   javascript    |-> generate_web_audio(p),
                   prompt        |-> p,
                   fallback_used |-> error # None,
                   error         |-> error ],
      metrics |-> [metrics EXCEPT !.audio_generated = @ + 1] ]

\* generate_image_ai without its except clause
generate_image_ai_no_except(p, a, user_id, metrics, t) ==
    LET r == ImageGenerator_generate(p, a, t)
    IN  IF Raised(r)
        THEN r
        ELSE [ result |-> [ success  |-> TRUE,
                            type     |-> "image",
                            result   |-> r,
                            prompt   |-> p,
                            analysis |-> a ],
               metrics |-> [metrics EXCEPT !.images_generated = @ + 1] ]

\* generate_image_ai counting the image before the generator returned
generate_image_ai_count_first(p, a, user_id, metrics, t) ==
    LET r       == ImageGenerator_generate(p, a, t)
        counted == [metrics EXCEPT !.images_generated = @ + 1]
    IN  IF Raised(r)
        THEN generate_image_fallback(p, user_id, r, counted)
        ELSE [ result |-> [ success  |-> TRUE,
                            type     |-> "image",
                            result   |-> r,
                            prompt   |-> p,
                            analysis |-> a ],
               metrics |-> counted ]

generate_image_ai(p, a, user_id, metrics, t) ==
    LET r == ImageGenerator_generate(p, a, t)
    IN  IF Raised(r)
        THEN generate_image_fallback(p, user_id, r, metrics)
        ELSE [ result |-> [ success  |-> TRUE,
                            type     |-> "image",
                            result   |-> r,
                            prompt   |-> p,
                            analysis |-> a ],
               metrics |-> [metrics EXCEPT !.images_generated = @ + 1] ]

generate_video_ai(p, a, user_id, metrics, t) ==
    LET r == VideoGenerator_generate(p, a, t)
    IN  IF Raised(r)
        THEN generate_video_fallback(p, user_id, r, metrics)
        ELSE [ result |-> [ success  |-> TRUE,
                            type     |-> "video",
                            result   |-> r,
                            prompt   |-> p,
                            analysis |-> a ],
               metrics |-> [metrics EXCEPT !.videos_generated = @ + 1] ]

generate_audio_ai(p, a, user_id, metrics, t) ==
    LET r == AudioGenerator_generate(p, a, t)
    IN  IF Raised(r)
        THEN generate_audio_fallback(p, user_id, r, metrics)
        ELSE [ result |-> [ success  |-> TRUE,
                            type     |-> "audio",
                            result   |-> r,
                            prompt   |-> p,
                            analysis |-> a ],
               metrics |-> [metrics EXCEPT !.audio_generated = @ + 1] ]

\* the generator an if/elif chain of generate_media or generate_media_fallback
\* ends in, and the call of it
fallback_route(p, media_type) ==
    IF media_type = <<"i","m","a","g","e">>
       \/ any_in(<<<<"i","m","a","g","e">>, <<"p","i","c","t","u","r","e">>, <<"c","h","a","r","a","c","t","e","r">>, <<"a","r","t">>>>, lower(p))
    THEN "image"
    ELSE IF media_type = <<"v","i","d","e","o">>
            \/ any_in(<<<<"v","i","d","e","o">>, <<"a","n","i","m","a","t","i","o","n">>, <<"m","o","v","i","e">>>>, lower(p))
    THEN "video"
    ELSE IF media_type = <<"a","u","d","i","o">>
            \/ any_in(<<<<"a","u","d","i","o">>, <<"m","u","s","i","c">>, <<"s","o","u","n","d">>>>, lower(p))
    THEN "audio"
    ELSE "image"

generate_media_fallback(p, media_type, user_id, metrics) ==
    LET route == fallback_route(p, media_type)
    IN  IF route = "image" THEN generate_image_fallback(p, user_id, None, metrics)
        ELSE IF route = "video" THEN generate_video_fallback(p, user_id, None, metrics)
        ELSE generate_audio_fallback(p, user_id, None, metrics)

ai_route(p, media_type, detected_type) ==
    IF detected_type = "image" \/ media_type = <<"i","m","a","g","e">> THEN "image"
    ELSE IF detected_type = "video" \/ media_type = <<"v","i","d","e","o">> THEN "video"
    ELSE IF detected_type = "audio" \/ media_type = <<"a","u","d","i","o">> THEN "audio"
    ELSE IF any_in(<<<<"i","m","a","g","e">>, <<"p","i","c","t","u","r","e">>, <<"c","h","a","r","a","c","t","e","r">>, <<"b","a","c","k","g","r","o","u","n","d">>, <<"a","r","t">>>>,
                   lower(p))
    THEN "image"
    ELSE IF any_in(<<<<"v","i","d","e","o">>, <<"a","n","i","m","a","t","i","o","n">>, <<"m","o","v","i","e">>, <<"c","l","i","p">>>>, lower(p))
    THEN "video"
    ELSE IF any_in(<<<<"a","u","d","i","o">>, <<"m","u","s","i","c">>, <<"s","o","u","n","d">>, <<"s","o","n","g">>>>, lower(p))
    THEN "audio"
    ELSE "image"

generate_ai(route, p, a, user_id, metrics, t) ==
    IF route = "image" THEN generate_image_ai(p, a, user_id, metrics, t)
    ELSE IF route = "video" THEN generate_video_ai(p, a, user_id, metrics, t)
    ELSE generate_audio_ai(p, a, user_id, metrics, t)

\* result.update({...}) and jsonify(result) at the end of generate_media
respond(out, user_id, status, t) ==
    [ response |->
        [ status |-> 200,
          body   |-> update(out.result, [ user_id     |-> user_id,
                                          timestamp   |-> t,
                                          system_type |-> status ]) ],
      service_metrics |-> out.metrics ]

\* the response of generate_media to a request without prompt
prompt_required ==
    [ status |-> 400,
      body   |-> [success |-> FALSE, error |-> "Prompt is required"] ]

\* the except clause of generate_media: an exception that reaches it is
\* answered with status 500; `metrics` is service_metrics as the try block
\* left it
internal_error(e, metrics, status) ==
    [ response |->
        [ status |-> 500,
          body   |-> [ success     |-> FALSE,
                       error       |-> e,
                       system_type |-> status ] ],
      service_metrics |-> metrics ]

\* generate_media without the test of the prompt
generate_media_no_prompt_test(data, metrics, status, t, uuid) ==
    LET p          == strip(get(data, "prompt", <<>>))
        media_type == lower(get(data, "type", <<"a","u","t","o">>))
        user_id    == get(data, "user_id", uuid)
        tracked    == [metrics EXCEPT !.active_users = @ \cup {user_id},
                                      !.total_requests = @ + 1]
        a          == analyze_prompt(p, t)
        out        == IF status = "full_media_ai"
                      THEN generate_ai(ai_route(p, media_type, a.media_type),
                                       p, a, user_id, tracked, t)
                      ELSE generate_media_fallback(p, media_type, user_id, tracked)
    IN  IF Raised(out)
        THEN internal_error(out, tracked, status)
        ELSE respond(out, user_id, status, t)

\* generate_media tracking the user and the request before the test of the
\* prompt
generate_media_track_first(data, metrics, status, t, uuid) ==
    LET p          == strip(get(data, "prompt", <<>>))
        media_type == lower(get(data, "type", <<"a","u","t","o">>))
        user_id    == get(data, "user_id", uuid)
        tracked    == [metrics EXCEPT !.active_users = @ \cup {user_id},
                                      !.total_requests = @ + 1]
        a          == analyze_prompt(p, t)
        out        == IF status = "full_media_ai"
                      THEN generate_ai(ai_route(p, media_type, a.media_type),
                                       p, a, user_id, tracked, t)
                      ELSE generate_media_fallback(p, media_type, user_id, tracked)
    IN  IF p = <<>>
        THEN [response |-> prompt_required, service_metrics |-> tracked]
        ELSE IF Raised(out)
        THEN internal_error(out, tracked, status)
        ELSE respond(out, user_id, status, t)

\* generate_media for the JSON body `data` of a request, with service_metrics
\* as the request finds it and `uuid` the value of str(uuid.uuid4())[:8];
\* returns the response and service_metrics as the request leaves it
generate_media(data, metrics, status, t, uuid) ==
    LET p          == strip(get(data, "prompt", <<>>))
        media_type == lower(get(data, "type", <<"a","u","t","o">>))
        user_id    == get(data, "user_id", uuid)
        tracked    == [metrics EXCEPT !.active_users = @ \cup {user_id},
                                      !.total_requests = @ + 1]
        a          == analyze_prompt(p, t)
        out        == IF status = "full_media_ai"
                      THEN generate_ai(ai_route(p, media_type, a.media_type),
                                       p, a, user_id, tracked, t)
                      ELSE generate_media_fallback(p, media_type, user_id, tracked)
    IN  IF p = <<>>
        THEN [response |-> prompt_required, service_metrics |-> metrics]
        ELSE IF Raised(out)
        THEN internal_error(out, tracked, status)
        ELSE respond(out, user_id, status, t)

(***************************************************************************)
(* A caller that analyses one prompt after another, as the test loop of    *)
(* media_ai.py does: `analysis` and `previous` are then the records of two *)
(* prompts.  The prompts are the slices of one phrase that has a keyword   *)
(* of every taxonomy of the confidence score.                              *)
(***************************************************************************)
PairPrompts == { Join(ws) : ws \in Slices(Phrases[11]) }

InitPairs ==
    /\ prompt \in PairPrompts
    /\ now = 0
    /\ analysis = None
    /\ previous = None
    /\ scores = None
    /\ result = None
    /\ InitApp
    /\ InitChecker
    /\ InitIdle

\* the caller takes the next prompt
ChangePrompt ==
    /\ prompt' \in PairPrompts \ {prompt}
    /\ UNCHANGED <<now, analysis, previous, scores, result, appvars, healthvars, concvars>>

NextPairs == AnalyzePrompt \/ ChangePrompt

SpecPairs == InitPairs /\ [][NextPairs]_vars

(***************************************************************************)
(* Callers of the generators.  app.py calls generate(prompt, analysis)     *)
(* with the record analyze_prompt returned for the same prompt; the        *)
(* __main__ blocks of the generators call it with a dict written by hand.  *)
(* The prompts hold the three test prompts, a cue of every group of every  *)
(* dispatcher, cues inside other words ("ui" in "quick", "wind" in         *)
(* "window"), every duration keyword, and prompts without any cue.         *)
(***************************************************************************)
GenPrompts ==
    { <<"C","r","e","a","t","e"," ","a"," ","n","i","n","j","a"," ","c","h","a","r","a","c","t","e","r"," ","w","a","l","k","i","n","g"," ","a","n","i","m","a","t","i","o","n">>,
      <<"C","r","e","a","t","e"," ","e","p","i","c"," ","s","p","a","c","e"," ","s","o","u","n","d","t","r","a","c","k"," ","m","u","s","i","c">>,
      <<"C","r","e","a","t","e"," ","a"," ","n","i","n","j","a"," ","w","a","r","r","i","o","r"," ","c","h","a","r","a","c","t","e","r">>,
      <<"e","p","i","c"," ","b","a","t","t","l","e">>,
      <<"a"," ","k","n","i","g","h","t"," ","s","t","a","n","d","i","n","g"," ","i","d","l","e"," ","i","n"," ","t","h","e"," ","c","a","s","t","l","e">>,
      <<"f","l","o","w","i","n","g"," ","w","a","t","e","r"," ","p","a","r","t","i","c","l","e","s">>,
      <<"f","a","d","e"," ","t","h","e"," ","m","e","n","u">>,
      <<"m","a","g","i","c"," ","s","p","a","r","k","l","e"," ","e","f","f","e","c","t">>,
      <<"t","i","t","l","e"," ","t","e","x","t"," ","r","e","v","e","a","l">>,
      <<"b","r","a","n","d"," ","l","o","g","o"," ","i","n","t","r","o">>,
      <<"q","u","i","c","k"," ","l","o","o","p">>,
      <<"l","o","n","g"," ","l","o","o","p">>,
      <<"l","o","o","p">>,
      <<"s","h","o","r","t"," ","b","a","c","k","g","r","o","u","n","d"," ","v","o","i","c","e">>,
      <<"d","e","t","a","i","l","e","d">>,
      <<"p","o","l","i","s","h","e","d"," ","c","i","n","e","m","a","t","i","c"," ","t","r","a","i","l","e","r">>,
      <<"a"," ","c","o","s","y"," ","r","o","o","m">>,
      <<"a","b","s","t","r","a","c","t"," ","f","o","r","e","s","t"," ","p","a","t","t","e","r","n">>,
      <<>>,
      <<"x","y","z","z","y"," ","p","l","u","g","h">>,
      <<"v","o","i","c","e"," ","n","a","r","r","a","t","i","o","n">>,
      <<"W","A","L","K","I","N","G"," ","H","E","R","O">>,
      <<"m","e","d","i","e","v","a","l"," ","c","a","s","t","l","e"," ","l","a","n","d","s","c","a","p","e">>,
      <<"p","l","e","a","s","e"," ","s","h","o","w"," ","t","h","e"," ","s","e","v","e","n"," ","l","i","t","t","l","e"," ","r","e","d"," ","b","o","x","e","s"," ","u","n","d","e","r"," ","t","h","a","t"," ","w","i","n","d","o","w"," ","t","o","d","a","y">>,
      <<"e","x","p","l","o","s","i","o","n"," ","s","o","u","n","d">>,
      <<"c","a","l","m"," ","o","c","e","a","n"," ","a","m","b","i","e","n","t"," ","a","t","m","o","s","p","h","e","r","e">> }

\* test_analysis of video_generator.py
video_test_analysis ==
    [ theme |-> "ninja", style |-> "cartoon", complexity |-> "detailed",
      keywords |-> <<<<"c","h","a","r","a","c","t","e","r">>, <<"w","a","l","k","i","n","g">>, <<"a","n","i","m","a","t","i","o","n">>>>,
      mood |-> "epic" ]

\* test_analysis of audio_generator.py
audio_test_analysis ==
    [ theme |-> "space", style |-> "electronic", complexity |-> "detailed",
      keywords |-> <<<<"m","u","s","i","c">>, <<"e","p","i","c">>, <<"s","o","u","n","d","t","r","a","c","k">>>>,
      mood |-> "epic" ]

\* test_analysis of image_generator.py
image_test_analysis ==
    [ theme |-> "ninja", style |-> "cartoon", complexity |-> "detailed",
      keywords |-> <<<<"c","h","a","r","a","c","t","e","r">>, <<"w","a","r","r","i","o","r">>, <<"s","t","e","a","l","t","h">>>> ]

\* a dict written by hand whose theme is no key of the color schemes
custom_analysis ==
    [ theme |-> "cyberpunk", style |-> "electronic", complexity |-> "medium",
      keywords |-> <<<<"m","u","s","i","c">>>>, mood |-> "epic" ]

GenAnalyses ==
    { analyze_prompt(p, 0) : p \in GenPrompts }
    \cup { video_test_analysis, audio_test_analysis, image_test_analysis, custom_analysis }

InitGen ==
    /\ prompt \in GenPrompts
    /\ now = 0
    /\ analysis = None
    /\ previous = None
    /\ scores = None
    /\ result = None
    /\ InitApp
    /\ InitChecker
    /\ InitIdle

\* the caller turns to another prompt
NextPrompt ==
    /\ prompt' \in GenPrompts \ {prompt}
    /\ analysis' = None
    /\ result' = None
    /\ UNCHANGED <<now, previous, scores, appvars, healthvars, concvars>>

VideoGenerate ==
    \E a \in GenAnalyses :
        /\ analysis' = a
        /\ result' = VideoGenerator_generate(prompt, a, now)
        /\ UNCHANGED <<prompt, now, previous, scores, appvars, healthvars, concvars>>

AudioGenerate ==
    \E a \in GenAnalyses :
        /\ analysis' = a
        /\ result' = AudioGenerator_generate(prompt, a, now)
        /\ UNCHANGED <<prompt, now, previous, scores, appvars, healthvars, concvars>>

ImageGenerate ==
    \E a \in GenAnalyses :
        /\ analysis' = a
        /\ result' = ImageGenerator_generate(prompt, a, now)
        /\ UNCHANGED <<prompt, now, previous, scores, appvars, healthvars, concvars>>

NextGen == NextPrompt \/ VideoGenerate \/ AudioGenerate \/ ImageGenerate

SpecGen == InitGen /\ [][NextGen]_vars

(***************************************************************************)
(* Clients of /api/generate.  A request carries a prompt, a type and a     *)
(* user_id; the prompts are empty, blank, without any keyword, a prompt    *)
(* whose image generator raises, and three test prompts of media_ai.py.    *)
(***************************************************************************)
ApiPrompts ==
    { <<>>,
      <<" "," "," ">>,
      <<"x","y","z","z","y"," ","p","l","u","g","h">>,
      <<" ","a"," ","c","o","s","y"," ","r","o","o","m"," ">>,
      <<"C","r","e","a","t","e"," ","a"," ","n","i","n","j","a"," ","c","h","a","r","a","c","t","e","r"," ","i","m","a","g","e">>,
      <<"M","a","k","e"," ","p","e","a","c","e","f","u","l"," ","f","o","r","e","s","t"," ","a","m","b","i","e","n","t"," ","m","u","s","i","c">>,
      <<"G","e","n","e","r","a","t","e"," ","a","n"," ","e","p","i","c"," ","s","p","a","c","e"," ","b","a","t","t","l","e"," ","v","i","d","e","o">> }

\* the values of 'type', as the client wrote them
ApiTypes ==
    { <<"a","u","t","o">>, <<"i","m","a","g","e">>, <<"v","i","d","e","o">>, <<"a","u","d","i","o">>, <<"V","i","d","e","o">> }

UserIds == {"player1"}

\* values of str(uuid.uuid4())[:8]
Uuids == {"1b9d6bcd"}

\* the JSON bodies: with the three keys, or with some of them missing
Requests ==
    { [prompt |-> p, type |-> ty, user_id |-> u] :
        p \in ApiPrompts, ty \in ApiTypes, u \in UserIds }
    \cup { [type |-> ty, user_id |-> u] : ty \in ApiTypes, u \in UserIds }
    \cup { [prompt |-> p, user_id |-> u] : p \in ApiPrompts, u \in UserIds }
    \cup { [prompt |-> p] : p \in ApiPrompts }

InitApi ==
    /\ prompt = <<>>
    /\ now = 0
    /\ analysis = None
    /\ previous = None
    /\ scores = None
    /\ result = None
    /\ request = None
    /\ response = None
    /\ service_metrics = [ images_generated |-> 0,
                           videos_generated |-> 0,
                           audio_generated  |-> 0,
                           total_requests   |-> 0,
                           active_users     |-> {} ]
    /\ SYSTEM_STATUS \in {"full_media_ai", "fallback_system"}
    /\ gallery = None
    /\ InitChecker
    /\ InitIdle

\* the response and the metrics a handler returned are taken over
Handled(data, out) ==
    /\ request' = data
    /\ response' = out.response
    /\ service_metrics' = out.service_metrics

\* POST /api/generate
GenerateMedia ==
    /\ service_metrics.total_requests < MaxRequests
    /\ \E data \in Requests, uuid \in Uuids :
        Handled(data, generate_media(data, service_metrics, SYSTEM_STATUS, now, uuid))
    /\ UNCHANGED <<prompt, now, analysis, previous, scores, result, SYSTEM_STATUS, gallery,
                   healthvars, concvars>>

\* the body of the response of gallery(): the counters and their sum
gallery_view(metrics) ==
    [ success |-> TRUE,
      gallery |-> [ recent_images |-> metrics.images_generated,
                    recent_videos |-> metrics.videos_generated,
                    recent_audio  |-> metrics.audio_generated,
                    total_media   |-> metrics.images_generated
                                        + metrics.videos_generated
                                        + metrics.audio_generated ] ]

\* GET /api/gallery
Gallery ==
    /\ gallery' = [status |-> 200, body |-> gallery_view(service_metrics)]
    /\ UNCHANGED <<prompt, now, analysis, previous, scores, result,
                   request, response, service_metrics, SYSTEM_STATUS, healthvars, concvars>>

NextApi == GenerateMedia \/ Gallery

SpecApi == InitApi /\ [][NextApi]_vars

(***************************************************************************)
(* health_check.py: HealthChecker.record_generation.  media_type is a str; *)
(* error_message is None or a str; generation_time and the average are in  *)
(* tenths of a second.                                                     *)
(***************************************************************************)
Str(s) == [str |-> s]

\* bool(error_message)
truthy(error_message) == error_message # None /\ error_message.str # ""

RECURSIVE gcd(_, _)
gcd(a, b) == IF b = 0 THEN a ELSE gcd(b, a % b)

\* n / d
Quotient(n, d) ==
    IF n = 0 THEN Ratio(0, 1) ELSE Ratio(n \div gcd(n, d), d \div gcd(n, d))

\* list[-n:]
last(list, n) ==
    IF Len(list) > n THEN SubSeq(list, Len(list) - n + 1, Len(list)) ELSE list

\* _log_error that drops the newest entry when the log is full
_log_error_keep_oldest(self, media_type, error_message, t) ==
    LET error_entry == [ timestamp     |-> t,
                         media_type    |-> media_type,
                         error_message |-> error_message.str ]
        appended    == Append(self.error_log, error_entry)
    IN  [self EXCEPT !.error_log =
            IF Len(appended) > 100 THEN SubSeq(appended, 1, 100) ELSE appended]

_log_error(self, media_type, error_message, t) ==
    LET error_entry == [ timestamp     |-> t,
                         media_type    |-> media_type,
                         error_message |-> error_message.str ]
        appended    == Append(self.error_log, error_entry)
    IN  [self EXCEPT !.error_log =
            IF Len(appended) > 100 THEN last(appended, 100) ELSE appended]

_record_performance_data(self, media_type, success, generation_time, t) ==
    LET performance_entry == [ timestamp       |-> t,
                               media_type      |-> media_type,
                               success         |-> success,
                               generation_time |-> generation_time ]
        appended          == Append(self.performance_history, performance_entry)
    IN  [self EXCEPT !.performance_history =
            IF Len(appended) > 1000 THEN last(appended, 1000) ELSE appended]

\* record_generation for the checker `self` at time t: the checker as the call
\* leaves it, and the exception the call raised or None
record_generation(self, media_type, success, generation_time, error_message, t) ==
    LET counted    == [self.generation_stats EXCEPT ![k_total_requests] = @ + 1]
        succeeded  == [counted EXCEPT ![k_successful_requests] = @ + 1]
        \* f'{media_type}s_generated'
        key        == media_type \o <<"s">> \o <<"_","g","e","n","e","r","a","t","e","d">>
        generated  == [succeeded EXCEPT ![key] = @ + 1]
        current_avg      == generated[k_average_generation_time]
        total_successful == generated[k_successful_requests]
        new_avg    == Quotient(current_avg.num * (total_successful - 1)
                                 + generation_time * current_avg.den,
                               current_avg.den * total_successful)
        averaged   == [generated EXCEPT ![k_average_generation_time] =
                          IF total_successful = 1
                          THEN Quotient(generation_time, 1)
                          ELSE new_avg]
        failed     == [counted EXCEPT ![k_failed_requests] = @ + 1]
        logged     == IF truthy(error_message)
                      THEN _log_error([self EXCEPT !.generation_stats = failed],
                                      media_type, error_message, t)
                      ELSE [self EXCEPT !.generation_stats = failed]
        branched   == IF success
                      THEN [self EXCEPT !.generation_stats = averaged]
                      ELSE logged
        timed      == [branched EXCEPT !.generation_stats[k_last_generation_time] = t]
    IN  IF success /\ key \notin DOMAIN succeeded
        THEN [ self      |-> [self EXCEPT !.generation_stats = succeeded],
               exception |-> Raise("KeyError", "record_generation") ]
        ELSE [ self      |-> _record_performance_data(timed, media_type, success,
                                                      generation_time, t),
               exception |-> None ]

\* the checker after images calls record_generation('image', True, 1.2)
\* followed by failures calls record_generation('video', False, 0.0,
\* "Test error"), all at time 0
checker_after(images, failures) ==
    LET image_entry == [ timestamp       |-> 0,
                         media_type      |-> <<"i","m","a","g","e">>,
                         success         |-> TRUE,
                         generation_time |-> 12 ]
        video_entry == [ timestamp       |-> 0,
                         media_type      |-> <<"v","i","d","e","o">>,
                         success         |-> FALSE,
                         generation_time |-> 0 ]
        error_entry == [ timestamp     |-> 0,
                         media_type    |-> <<"v","i","d","e","o">>,
                         error_message |-> "Test error" ]
    IN  [ generation_stats |->
            (k_images_generated :> images) @@ (k_videos_generated :> 0)
              @@ (k_audio_generated :> 0) @@ (k_total_requests :> images + failures)
              @@ (k_successful_requests :> images) @@ (k_failed_requests :> failures)
              @@ (k_average_generation_time
                    :> IF images = 0 THEN Ratio(0, 1) ELSE Ratio(12, 1))
              @@ (k_last_generation_time
                    :> IF images + failures = 0 THEN None ELSE 0),
          performance_history |->
            last([i \in 1..(images + failures) |->
                     IF i <= images THEN image_entry ELSE video_entry], 1000),
          error_log |-> last([i \in 1..failures |-> error_entry], 100) ]

(***************************************************************************)
(* Callers of a HealthChecker, as the test of health_check.py.  The checker *)
(* is new, or has recorded 900 images and 99 failures with a message: one  *)
(* call before its lists are full and two before they drop an entry.       *)
(***************************************************************************)
MaxCalls == 2

MediaTypes == {<<"i","m","a","g","e">>, <<"v","i","d","e","o">>, <<"a","u","d","i","o">>}

GenerationTimes == {8, 12}

ErrorMessages == {None, Str(""), Str("Test error")}

Pasts ==
    { checker_after(0, 0), checker_after(900, 99) }

PastTotals == { past.generation_stats[k_total_requests] : past \in Pasts }

InitHealth ==
    /\ prompt = <<>>
    /\ now = 0
    /\ analysis = None
    /\ previous = None
    /\ scores = None
    /\ result = None
    /\ InitApp
    /\ \E past \in Pasts :
          /\ generation_stats = past.generation_stats
          /\ performance_history = past.performance_history
          /\ error_log = past.error_log
    /\ recorded = None
    /\ InitIdle

\* checker.record_generation(media_type, success, generation_time, error_message)
RecordGeneration ==
    /\ \E total \in PastTotals :
          /\ total <= generation_stats[k_total_requests]
          /\ generation_stats[k_total_requests] < total + MaxCalls
    /\ \E media_type \in MediaTypes, success \in BOOLEAN,
          generation_time \in GenerationTimes, error_message \in ErrorMessages :
          LET out == record_generation([ generation_stats    |-> generation_stats,
                                         performance_history |-> performance_history,
                                         error_log           |-> error_log ],
                                       media_type, success, generation_time,
                                       error_message, now)
          IN  /\ generation_stats' = out.self.generation_stats
              /\ performance_history' = out.self.performance_history
              /\ error_log' = out.self.error_log
              /\ recorded' = [ media_type      |-> media_type,
                               success         |-> success,
                               generation_time |-> generation_time,
                               error_message   |-> error_message,
                               exception       |-> out.exception ]
    /\ UNCHANGED <<prompt, now, analysis, previous, scores, result, appvars,
                   concvars>>

NextHealth == RecordGeneration

SpecHealth == InitHealth /\ [][NextHealth]_vars

(***************************************************************************)
(* The server with one thread per request in flight.  `d[k] += 1` on       *)
(* service_metrics is a read of d[k] followed by a write of the sum, and   *)
(* another thread may run between the two; active_users.add is one step.   *)
(* What a thread computes between its accesses of service_metrics depends  *)
(* on its request only and is joined to the access that follows it.        *)
(***************************************************************************)
MaxThreadRequests == 1

ThreadRequests ==
    { [prompt |-> <<" "," "," ">>, user_id |-> "player1"],
      [prompt |-> <<" ","a"," ","c","o","s","y"," ","r","o","o","m"," ">>, type |-> <<"a","u","t","o">>, user_id |-> "player1"],
      [prompt |-> <<"M","a","k","e"," ","p","e","a","c","e","f","u","l"," ","f","o","r","e","s","t"," ","a","m","b","i","e","n","t"," ","m","u","s","i","c">>, type |-> <<"a","u","t","o">>, user_id |-> "player2"],
      [prompt |-> <<"x","y","z","z","y"," ","p","l","u","g","h">>, type |-> <<"v","i","d","e","o">>] }

InitThreads ==
    /\ prompt = <<>>
    /\ now = 0
    /\ analysis = None
    /\ previous = None
    /\ scores = None
    /\ result = None
    /\ InitApp
    /\ InitChecker
    /\ InitIdle

\* the thread th goes on as `next`
Continue(th, next) == threads' = [threads EXCEPT ![th] = next]

\* generate_media up to the tracking of the user: a request without prompt is
\* answered at once
Receive(th) ==
    /\ threads[th].pc = "idle"
    /\ threads[th].handled < MaxThreadRequests
    /\ \E data \in ThreadRequests, uuid \in Uuids :
          LET p       == strip(get(data, "prompt", <<>>))
              user_id == get(data, "user_id", uuid)
          IN  IF p = <<>>
              THEN /\ Continue(th, [threads[th] EXCEPT
                                      !.data = data,
                                      !.response = prompt_required,
                                      !.handled = @ + 1])
                   /\ UNCHANGED service_metrics
              ELSE /\ Continue(th, [threads[th] EXCEPT
                                      !.pc = "load_total",
                                      !.data = [data EXCEPT !.prompt = p] @@ [user_id |-> user_id],
                                      !.response = None])
                   /\ service_metrics' =
                        [service_metrics EXCEPT !.active_users = @ \cup {user_id}]
    /\ UNCHANGED <<prompt, now, analysis, previous, scores, result, request, response,
                   SYSTEM_STATUS, gallery, healthvars, media_ai, calls>>

\* service_metrics['total_requests'] += 1: the read
LoadTotal(th) ==
    /\ threads[th].pc = "load_total"
    /\ Continue(th, [threads[th] EXCEPT !.pc = "store_total",
                                        !.loaded = service_metrics.total_requests])
    /\ UNCHANGED <<prompt, now, analysis, previous, scores, result, appvars,
                   healthvars, media_ai, calls>>

\* service_metrics['total_requests'] += 1: the write
StoreTotal(th) ==
    /\ threads[th].pc = "store_total"
    /\ service_metrics' =
         [service_metrics EXCEPT !.total_requests = threads[th].loaded + 1]
    /\ Continue(th, [threads[th] EXCEPT !.pc = "load_counter"])
    /\ UNCHANGED <<prompt, now, analysis, previous, scores, result, request, response,
                   SYSTEM_STATUS, gallery, healthvars, media_ai, calls>>

\* the counter `service_metrics[...] += 1` of an artifact type is about
counter_of(type) ==
    IF type = "image" THEN "images_generated"
    ELSE IF type = "video" THEN "videos_generated"
    ELSE "audio_generated"

\* the thread th has the response `out` in hand and reads the counter of
\* its artifact
ReadCounter(th, out) ==
    Continue(th, [threads[th] EXCEPT
                    !.pc = "store_counter",
                    !.counter = counter_of(out.response.body.type),
                    !.loaded = service_metrics[counter_of(out.response.body.type)],
                    !.response = out.response])

\* the analysis, the routing and the generator call, then the read of
\* service_metrics[counter] += 1 in generate_*_ai or in generate_*_fallback
LoadCounter(th) ==
    /\ threads[th].pc = "load_counter"
    /\ ReadCounter(th, generate_media(threads[th].data, service_metrics, SYSTEM_STATUS,
                                      now, threads[th].data.user_id))
    /\ UNCHANGED <<prompt, now, analysis, previous, scores, result, appvars,
                   healthvars, media_ai, calls>>

\* the write of service_metrics[counter] += 1, and the return of the response
StoreCounter(th) ==
    /\ threads[th].pc = "store_counter"
    /\ service_metrics' =
         [service_metrics EXCEPT ![threads[th].counter] = threads[th].loaded + 1]
    /\ Continue(th, [threads[th] EXCEPT !.pc = "idle",
                                        !.handled = @ + 1,
                                        !.completed = @ + 1])
    /\ UNCHANGED <<prompt, now, analysis, previous, scores, result, request, response,
                   SYSTEM_STATUS, gallery, healthvars, media_ai, calls>>

NextThreads ==
    \E th \in Threads :
        \/ Receive(th)
        \/ LoadTotal(th)
        \/ StoreTotal(th)
        \/ LoadCounter(th)
        \/ StoreCounter(th)

SpecThreads == InitThreads /\ [][NextThreads]_vars

(***************************************************************************)
(* Properties of analyze_prompt.                                           *)
(***************************************************************************)
Called == analysis # None

\* the labels of a taxonomy
Labels(taxonomy) == { taxonomy[e].label : e \in 1..Len(taxonomy) }

\* no keyword of any of the five taxonomies occurs in the str p
NoTaxonomyKeyword(p) ==
    \A taxonomy \in {media_types, themes, styles, moods, complexity_indicators} :
        \A e \in 1..Len(taxonomy) :
            \A k \in 1..Len(taxonomy[e].keywords) :
                ~contains(p, taxonomy[e].keywords[k])

\* C1: every record returned by analyze_prompt has its five labels set, each
\* drawn from its taxonomy or equal to the taxonomy's default label.
C1_LabelsInTaxonomy ==
    Called =>
        /\ analysis.media_type \in {"image", "video", "audio"}
        /\ analysis.theme \in
             {"ninja", "space", "medieval", "forest", "underwater", "default"}
        /\ analysis.style \in
             {"realistic", "cartoon", "abstract", "minimalist", "retro", "default"}
        /\ analysis.mood \in
             {"epic", "peaceful", "dark", "bright", "mysterious", "neutral"}
        /\ analysis.complexity \in {"simple", "detailed", "professional", "medium"}

C1_Witness ==
    /\ Called
    /\ analysis.media_type = "audio"
    /\ analysis.theme = "forest"
    /\ analysis.mood = "peaceful"
    /\ analysis.style = "default"
    /\ analysis.complexity = "medium"

\* C2 as stated: analyze_prompt("") returns the all-default record, with
\* complexity 'medium', no keywords and confidence 0.1.
C2_EmptyPromptAllDefault ==
    (Called /\ prompt = <<>>) =>
        /\ analysis.media_type = "image"
        /\ analysis.theme = "default"
        /\ analysis.style = "default"
        /\ analysis.mood = "neutral"
        /\ analysis.complexity = "medium"
        /\ analysis.keywords = <<>>
        /\ analysis.confidence = 1

\* C2 amended: analyze_prompt("") returns media_type 'image', theme and style
\* 'default', mood 'neutral', no keywords and confidence 0.1, but complexity
\* 'simple': the empty prompt has 0 < 5 words, which scores a point for 'simple'.
C2_EmptyPromptSimple ==
    (Called /\ prompt = <<>>) =>
        /\ analysis.media_type = "image"
        /\ analysis.theme = "default"
        /\ analysis.style = "default"
        /\ analysis.mood = "neutral"
        /\ analysis.complexity = "simple"
        /\ analysis.keywords = <<>>
        /\ analysis.confidence = 1

C2_Witness == Called /\ prompt = <<>> /\ analysis.original_prompt = <<>>

\* C3 as stated: a prompt without any taxonomy keyword gets all five default
\* labels and confidence 0.1, whatever its number of words and keywords.
C3_NoKeywordAllDefault ==
    (Called /\ NoTaxonomyKeyword(lower(prompt))) =>
        /\ analysis.media_type = "image"
        /\ analysis.theme = "default"
        /\ analysis.style = "default"
        /\ analysis.mood = "neutral"
        /\ analysis.complexity = "medium"
        /\ analysis.confidence = 1

\* C3 amended: a prompt without any taxonomy keyword gets the default
\* media_type, theme, style and mood; its complexity is 'simple' when it has
\* fewer than 5 words, 'detailed' when it has more than 10 and 'medium'
\* otherwise; its confidence is 0.1 when no keyword was extracted and 0.3
\* (the base plus the keyword term) when at least one was.
C3_NoKeywordByLength ==
    (Called /\ NoTaxonomyKeyword(lower(prompt))) =>
        LET n == Len(split(lower(prompt)))
        IN  /\ analysis.media_type = "image"
            /\ analysis.theme = "default"
            /\ analysis.style = "default"
            /\ analysis.mood = "neutral"
            /\ analysis.complexity =
                 IF n < 5 THEN "simple" ELSE IF n > 10 THEN "detailed" ELSE "medium"
            /\ analysis.confidence = IF analysis.keywords = <<>> THEN 1 ELSE 3

C3_Witness ==
    /\ Called
    /\ NoTaxonomyKeyword(lower(prompt))
    /\ Len(split(lower(prompt))) > 10
    /\ Len(analysis.keywords) > 0
    /\ analysis.complexity = "detailed"

\* C4: the keywords of the record are the first 10 tokens of the case-folded
\* prompt, in their original order, that are longer than 2 characters and not
\* stop words; "create", "make", "generate" and "build" are stop words.
Survives(w) == Len(w) > 2 /\ w \notin stop_words

C4_Keywords ==
    Called =>
        LET tokens   == findall_words(lower(prompt))
            keywords == analysis.keywords
            rank(i)  == Cardinality({ j \in 1..i : Survives(tokens[j]) })
        IN  /\ Len(keywords) <= 10
            /\ \A j \in 1..Len(keywords) :
                   Len(keywords[j]) > 2 /\ keywords[j] \notin stop_words
            /\ Len(keywords) = Min2(10, rank(Len(tokens)))
            /\ \A i \in 1..Len(tokens) :
                   (Survives(tokens[i]) /\ rank(i) <= 10) =>
                       keywords[rank(i)] = tokens[i]
            /\ { <<"c","r","e","a","t","e">>, <<"m","a","k","e">>,
                 <<"g","e","n","e","r","a","t","e">>, <<"b","u","i","l","d">> }
                   \subseteq stop_words

C4_Witness ==
    /\ Called
    /\ Len(analysis.keywords) = 10
    /\ Len(SelectSeq(findall_words(lower(prompt)), Survives)) > 10
    /\ \E i \in 1..Len(findall_words(lower(prompt))) :
           findall_words(lower(prompt))[i] \in stop_words

\* C5: the confidence of every record lies in [0.0, 1.0]; in tenths it is
\* at least 1 (the media-type base) and at most 10.
C5_ConfidenceRange ==
    Called => (analysis.confidence >= 1 /\ analysis.confidence <= 10)

C5_Witness == Called /\ analysis.confidence = 10

NinjaPrompt ==
    <<"C","r","e","a","t","e"," ","a"," ","n","i","n","j","a"," ",
      "c","h","a","r","a","c","t","e","r"," ","i","m","a","g","e">>

\* C7: analyze_prompt("Create a ninja character image") returns media_type
\* 'image' and theme 'ninja', gives no word-count point to a complexity
\* label, and has confidence 0.3 (media type) + 0.2 (theme) + the keyword
\* term (0.2 for its three keywords), 0.7.
C7_NinjaScenario ==
    (Called /\ prompt = NinjaPrompt) =>
        /\ analysis.media_type = "image"
        /\ analysis.theme = "ninja"
        /\ Len(split(lower(prompt))) = 5
        /\ scores.complexity = keyword_scores(complexity_indicators, lower(prompt))
        /\ Len(analysis.keywords) = 3
        /\ analysis.confidence = 3 + 2 + 2

\* C8 as stated: two calls of analyze_prompt with the same prompt return
\* records that are equal in every field.
C8_SameRecord ==
    (Called /\ previous # None) => analysis = previous

\* C8 amended: two calls of analyze_prompt with the same prompt return
\* records that are equal in every field except analysis_timestamp, which is
\* the reading of the clock at the call.
Untimed(a) == [a EXCEPT !.analysis_timestamp = 0]

C8_SameRecordButTimestamp ==
    (Called /\ previous # None) =>
        /\ Untimed(analysis) = Untimed(previous)
        /\ previous.analysis_timestamp <= analysis.analysis_timestamp
        /\ analysis.analysis_timestamp <= now

C8_Witness ==
    /\ Called
    /\ previous # None
    /\ previous.analysis_timestamp < analysis.analysis_timestamp
    /\ analysis.keywords # <<>>

\* the detectors: taxonomy, scores of the latest call, returned label, default
Detectors ==
    { <<media_types, scores.media_type, analysis.media_type, "image">>,
      <<themes, scores.theme, analysis.theme, "default">>,
      <<styles, scores.style, analysis.style, "default">>,
      <<moods, scores.mood, analysis.mood, "neutral">>,
      <<complexity_indicators, scores.complexity, analysis.complexity, "medium">> }

AllEqual(sc) == \A d, e \in 1..Len(sc) : sc[d] = sc[e]
AllZero(sc) == \A e \in 1..Len(sc) : sc[e] = 0

\* C9 as stated: when all labels of a taxonomy have the same score, zero or
\* not, the detector returns the default label; a label of the taxonomy is
\* selected only when its score is strictly the maximum.
C9_TieGivesDefault ==
    Called =>
        \A D \in Detectors :
            LET taxonomy == D[1]
                sc       == D[2]
                label    == D[3]
                default  == D[4]
            IN  /\ AllEqual(sc) => label = default
                /\ label # default =>
                     \A e \in 1..Len(sc) :
                         taxonomy[e].label # label =>
                             sc[e] < sc[index_of(taxonomy, label)]

\* C9 amended: when all labels of a taxonomy score zero the detector returns
\* the default label; on a full tie at a non-zero score it returns the label
\* declared first in the taxonomy; a label is selected only when the maximum
\* is non-zero and its score is the maximum, strictly or not.
C9_ZeroGivesDefault ==
    Called =>
        \A D \in Detectors :
            LET taxonomy == D[1]
                sc       == D[2]
                label    == D[3]
                default  == D[4]
            IN  /\ AllZero(sc) => label = default
                /\ (AllEqual(sc) /\ ~AllZero(sc)) => label = taxonomy[1].label
                /\ ~AllZero(sc) =>
                     /\ label \in Labels(taxonomy)
                     /\ \A e \in 1..Len(sc) : sc[e] <= sc[index_of(taxonomy, label)]

C9_Witness ==
    /\ Called
    /\ AllEqual(scores.theme)
    /\ ~AllZero(scores.theme)
    /\ analysis.theme = "ninja"
    /\ AllZero(scores.style)
    /\ analysis.style = "default"

\* C10: when the maximum score of a taxonomy is non-zero, the detector
\* returns a label with the maximum score, and no label declared before it
\* has that score.
C10_FirstDeclaredMaximum ==
    Called =>
        \A D \in Detectors :
            LET taxonomy == D[1]
                sc       == D[2]
                label    == D[3]
            IN  ~AllZero(sc) =>
                    /\ label \in Labels(taxonomy)
                    /\ LET at == index_of(taxonomy, label)
                       IN  /\ \A e \in 1..Len(sc) : sc[e] <= sc[at]
                           /\ \A e \in 1..(at - 1) : sc[e] < sc[at]

\* 'dark' and 'mysterious' share the maximum and 'dark' is declared first
C10_Witness ==
    /\ Called
    /\ scores.mood = <<0, 0, 1, 0, 1>>
    /\ analysis.mood = "dark"

\* C11: the word count w of the prompt adds exactly one point to 'detailed'
\* when w > 10, exactly one point to 'simple' when w < 5 and nothing when
\* 5 <= w <= 10, never a point to 'professional'; the point is added to the
\* keyword scores and the maximum is taken over the sums.
C11_WordCountPoint ==
    Called =>
        LET p    == lower(prompt)
            w    == Len(split(p))
            base == keyword_scores(complexity_indicators, p)
            sc   == scores.complexity
            s    == index_of(complexity_indicators, "simple")
            d    == index_of(complexity_indicators, "detailed")
            f    == index_of(complexity_indicators, "professional")
        IN  /\ sc[d] = base[d] + (IF w > 10 THEN 1 ELSE 0)
            /\ sc[s] = base[s] + (IF w < 5 THEN 1 ELSE 0)
            /\ sc[f] = base[f]
            /\ analysis.complexity = detect(complexity_indicators, sc, "medium")

\* a prompt of 5 words gets no point, the same prompt cut to 4 words would
C11_Witness ==
    /\ Called
    /\ Len(split(lower(prompt))) = 5
    /\ scores.complexity = <<0, 0, 1>>
    /\ analysis.complexity = "professional"

\* C12: generation_strategy and recommended_format are given by a decision
\* table over media_type, complexity, theme and the presence of the token
\* 'music' among the keywords; 'default_generation' is never produced.
C12_StrategyTable ==
    Called =>
        LET media  == analysis.media_type
            simple == analysis.complexity = "simple"
            themed == analysis.theme # "default"
            music  == <<"m","u","s","i","c">> \in
                        { analysis.keywords[i] : i \in 1..Len(analysis.keywords) }
            row    == <<media, simple, themed, music>>
            table  ==
              { <<"image", TRUE,  x, y, "svg_template", "svg">> : x, y \in BOOLEAN }
              \cup
              { <<"image", FALSE, TRUE,  y, "themed_svg_generation", "svg_with_css">> :
                  y \in BOOLEAN }
              \cup
              { <<"image", FALSE, FALSE, y, "procedural_svg", "svg_with_css">> :
                  y \in BOOLEAN }
              \cup
              { <<"video", TRUE,  x, y, "css_animation", "css_animation_html">> :
                  x, y \in BOOLEAN }
              \cup
              { <<"video", FALSE, x, y, "advanced_css_animation", "css_animation_html">> :
                  x, y \in BOOLEAN }
              \cup
              { <<"audio", s, x, TRUE,  "web_audio_composition", "web_audio_javascript">> :
                  s, x \in BOOLEAN }
              \cup
              { <<"audio", s, x, FALSE, "web_audio_effects", "web_audio_javascript">> :
                  s, x \in BOOLEAN }
        IN  /\ row \o <<analysis.generation_strategy, analysis.recommended_format>>
                 \in table
            /\ analysis.generation_strategy # "default_generation"

C12_Witness ==
    /\ Called
    /\ analysis.media_type = "audio"
    /\ <<"m","u","s","i","c">> \in
         { analysis.keywords[i] : i \in 1..Len(analysis.keywords) }
    /\ analysis.generation_strategy = "web_audio_composition"
    /\ analysis.recommended_format = "web_audio_javascript"

\* C13: estimated_time is a positive integer given by media_type and
\* complexity alone: 2 for video and 1 for image and audio, plus 1 for
\* 'detailed' and plus 2 for 'professional'; it is between 1 and 4.
C13_EstimatedTime ==
    Called =>
        LET base  == IF analysis.media_type = "video" THEN 2 ELSE 1
            extra == CASE analysis.complexity = "detailed" -> 1
                       [] analysis.complexity = "professional" -> 2
                       [] OTHER -> 0
        IN  /\ analysis.estimated_time = base + extra
            /\ analysis.estimated_time \in 1..4

C13_Witness ==
    /\ Called
    /\ analysis.media_type = "video"
    /\ analysis.complexity = "professional"
    /\ analysis.estimated_time = 4

(***************************************************************************)
(* Properties of the confidence of two records.                            *)
(***************************************************************************)
CalledTwice == analysis # None /\ previous # None

\* the labels of a record that are not the fallback of their detector
NonDefault(a) ==
    { f \in {"media_type", "theme", "style", "mood"} :
        CASE f = "media_type" -> a.media_type # "image"
          [] f = "theme"      -> a.theme # "default"
          [] f = "style"      -> a.style # "default"
          [] f = "mood"       -> a.mood # "neutral" }

\* C14 as stated: a record with at least as many non-default labels and at
\* least as many keywords as another has at least its confidence.
C14_MonotoneInCount ==
    ( /\ CalledTwice
      /\ Cardinality(NonDefault(analysis)) >= Cardinality(NonDefault(previous))
      /\ Len(analysis.keywords) >= Len(previous.keywords) )
    => analysis.confidence >= previous.confidence

\* C14: a record whose non-default labels include every non-default label of
\* another record, and which has at least as many keywords, has at least its
\* confidence.
C14_MonotoneLabelwise ==
    ( /\ CalledTwice
      /\ NonDefault(previous) \subseteq NonDefault(analysis)
      /\ Len(analysis.keywords) >= Len(previous.keywords) )
    => analysis.confidence >= previous.confidence

\* the later record adds a style and a media type to the mood of the earlier
C14_Witness ==
    /\ CalledTwice
    /\ NonDefault(previous) = {"mood"}
    /\ NonDefault(analysis) = {"mood", "style", "theme", "media_type"}
    /\ Len(analysis.keywords) > Len(previous.keywords)
    /\ previous.confidence = 4
    /\ analysis.confidence = 10
(***************************************************************************)
(* Properties of the generators.                                           *)
(***************************************************************************)
VideoResult ==
    /\ result # None
    /\ ~Raised(result)
    /\ result.generation_method = "css_animation"

AudioResult ==
    /\ result # None
    /\ ~Raised(result)
    /\ result.generation_method = "web_audio_api"

\* ImageGenerator.generate returned or raised
ImageCall ==
    /\ result # None
    /\ Raised(result) \/ result.generation_method = "procedural_svg"

Least(S) == CHOOSE x \in S : \A y \in S : x <= y

\* the entries of an if/elif chain that have a cue in the case-folded prompt
Matching(chain, p) == { i \in 1..Len(chain) : any_in(chain[i].words, lower(p)) }

Complexities == {"simple", "medium", "detailed", "professional"}

\* C16 as stated: a prompt with one of the keywords quick, short, long, loop
\* has a duration that does not depend on the complexity; any other prompt has
\* the duration of its complexity (video 5, 10, 15 and audio 15, 45, 60 for
\* simple, detailed, professional) or the default (video 10, audio 30).
C16_ExplicitKeywords ==
    VideoResult \/ AudioResult =>
        LET p        == lower(result.prompt)
            video    == result.generation_method = "css_animation"
            explicit == any_in(<<<<"q","u","i","c","k">>, <<"s","h","o","r","t">>, <<"l","o","n","g">>, <<"l","o","o","p">>>>, p)
            derived  == IF video
                        THEN CASE result.complexity = "simple"       -> 5
                               [] result.complexity = "detailed"     -> 10
                               [] result.complexity = "professional" -> 15
                               [] OTHER                              -> 10
                        ELSE CASE result.complexity = "simple"       -> 15
                               [] result.complexity = "detailed"     -> 45
                               [] result.complexity = "professional" -> 60
                               [] OTHER                              -> 30
        IN  IF explicit
            THEN \A c \in Complexities :
                    result.duration =
                        IF video
                        THEN VideoGenerator_determine_duration(<<>>, result.prompt, c)
                        ELSE AudioGenerator_determine_duration(<<>>, result.prompt, c)
            ELSE result.duration = derived

\* C16: the duration is resolved by a three-tier chain, first match wins.
\* (1) Explicit keywords, substrings of the case-folded prompt: for video
\* quick, fast or brief give 2, else short gives 5, else long, extended or
\* detailed give 15; for audio short, brief or quick give 10, else long or
\* extended give 60, else loop or background give 30.  (2) Otherwise the
\* complexity: video simple 5, detailed 10, professional 15; audio simple 15,
\* detailed 45, professional 60.  (3) Otherwise 10 for video and 30 for audio.
C16_DurationChain ==
    VideoResult \/ AudioResult =>
        LET p      == lower(result.prompt)
            hit(S) == \E w \in S : contains(p, w)
            c      == result.complexity
        IN  IF result.generation_method = "css_animation"
            THEN result.duration =
                   CASE hit({<<"q","u","i","c","k">>, <<"f","a","s","t">>, <<"b","r","i","e","f">>}) -> 2
                     [] ~hit({<<"q","u","i","c","k">>, <<"f","a","s","t">>, <<"b","r","i","e","f">>})
                        /\ hit({<<"s","h","o","r","t">>}) -> 5
                     [] ~hit({<<"q","u","i","c","k">>, <<"f","a","s","t">>, <<"b","r","i","e","f">>, <<"s","h","o","r","t">>})
                        /\ hit({<<"l","o","n","g">>, <<"e","x","t","e","n","d","e","d">>, <<"d","e","t","a","i","l","e","d">>}) -> 15
                     [] OTHER ->
                          CASE c = "simple" -> 5
                            [] c = "detailed" -> 10
                            [] c = "professional" -> 15
                            [] OTHER -> 10
            ELSE result.duration =
                   CASE hit({<<"s","h","o","r","t">>, <<"b","r","i","e","f">>, <<"q","u","i","c","k">>}) -> 10
                     [] ~hit({<<"s","h","o","r","t">>, <<"b","r","i","e","f">>, <<"q","u","i","c","k">>})
                        /\ hit({<<"l","o","n","g">>, <<"e","x","t","e","n","d","e","d">>}) -> 60
                     [] ~hit({<<"s","h","o","r","t">>, <<"b","r","i","e","f">>, <<"q","u","i","c","k">>, <<"l","o","n","g">>, <<"e","x","t","e","n","d","e","d">>})
                        /\ hit({<<"l","o","o","p">>, <<"b","a","c","k","g","r","o","u","n","d">>}) -> 30
                     [] OTHER ->
                          CASE c = "simple" -> 15
                            [] c = "detailed" -> 45
                            [] c = "professional" -> 60
                            [] OTHER -> 30

\* 'loop' beats the complexity in the audio generator
C16_Witness ==
    /\ AudioResult
    /\ result.prompt = <<"l","o","o","p">>
    /\ result.complexity = "simple"
    /\ result.duration = 30

C18_ImageTypeFirstMatch ==
    ImageCall =>
        LET hits == Matching(image_cues, prompt)
            type == _determine_image_type(analysis.keywords, prompt)
        IN  /\ type \in {"character", "environment", "ui_element", "abstract"}
            /\ [i \in 1..Len(image_cues) |-> image_cues[i].returns]
                 = <<"character", "environment", "ui_element">>
            /\ hits = {} => type = "abstract"
            /\ hits # {} => type = image_cues[Least(hits)].returns
            /\ ~Raised(result) => result.image_type = type /\ result.prompt = prompt

\* a character cue and an environment cue in one prompt
C18_Witness ==
    /\ ImageCall
    /\ ~Raised(result)
    /\ Matching(image_cues, result.prompt) = {1, 2}
    /\ result.image_type = "character"

FiveColors == {"primary", "secondary", "accent", "background", "text"}

\* C19: the color scheme of a result of the image and the video generator has
\* the five colors; it is the scheme of the theme for the six themes the
\* analyzer can produce and the 'default' scheme for any other theme.
C19_ColorSchemeTotal ==
    /\ \A e \in 1..Len(themes) :
          /\ themes[e].label \in DOMAIN color_schemes
          /\ themes[e].label \in DOMAIN VideoGenerator_color_schemes
    /\ \A t \in DOMAIN color_schemes \cup {"cyberpunk", ""} :
          /\ DOMAIN _get_color_scheme(t) = FiveColors
          /\ DOMAIN get(color_schemes, t, color_schemes["default"]) = FiveColors
    /\ (result # None /\ ~Raised(result) /\ "colors_used" \in DOMAIN result)
       => LET schemes == IF result.generation_method = "css_animation"
                         THEN VideoGenerator_color_schemes
                         ELSE color_schemes
          IN  /\ DOMAIN result.colors_used = FiveColors
              /\ result.theme \in DOMAIN schemes
                   => result.colors_used = schemes[result.theme]
              /\ result.theme \notin DOMAIN schemes
                   => result.colors_used = schemes["default"]
              /\ result.content.colors = result.colors_used

\* a theme that is no key of the schemes
C19_Witness ==
    /\ VideoResult
    /\ result.theme = "cyberpunk"
    /\ result.colors_used = VideoGenerator_color_schemes["default"]
    /\ result.colors_used.text = "#ECF0F1"

(***************************************************************************)
(* Properties of /api/generate.                                            *)
(***************************************************************************)
Responded == response # None

\* the keys that hold what a client renders
Artifact == {"result", "content", "html", "javascript"}

\* C20 as stated: every request, whatever its prompt, is answered with
\* success = true, an analysis and an artifact.
C20_AnyPromptSucceeds ==
    Responded =>
        /\ response.body.success
        /\ "analysis" \in DOMAIN response.body
        /\ Artifact \cap DOMAIN response.body # {}

\* C20: a request whose prompt is not empty after strip(), nonsensical or not,
\* is answered with status 200, success = true and an artifact, and with the
\* analysis when the generator of the full system returned; a request whose
\* prompt is empty or blank is answered with status 400, success = false and
\* the error 'Prompt is required', without analysis and without artifact.
C20_NonEmptyPromptSucceeds ==
    Responded =>
        LET body == response.body
        IN  IF strip(get(request, "prompt", <<>>)) = <<>>
            THEN /\ response.status = 400
                 /\ ~body.success
                 /\ body.error = "Prompt is required"
                 /\ "analysis" \notin DOMAIN body
                 /\ Artifact \cap DOMAIN body = {}
            ELSE /\ response.status = 200
                 /\ body.success
                 /\ Artifact \cap DOMAIN body # {}
                 /\ body.type \in {"image", "video", "audio"}
                 /\ "analysis" \in DOMAIN body <=> "result" \in DOMAIN body
                 /\ "result" \in DOMAIN body
                      <=> ( /\ SYSTEM_STATUS = "full_media_ai"
                            /\ "fallback_used" \notin DOMAIN body )
                 /\ "analysis" \in DOMAIN body
                      => body.analysis = analyze_prompt(strip(get(request, "prompt", <<>>)), now)

\* a prompt without any keyword is analysed and rendered
C20_Witness ==
    /\ Responded
    /\ get(request, "prompt", <<>>) = <<"x","y","z","z","y"," ","p","l","u","g","h">>
    /\ response.status = 200
    /\ response.body.success
    /\ "analysis" \in DOMAIN response.body
    /\ response.body.analysis.theme = "default"
    /\ response.body.analysis.generation_strategy = "svg_template"
    /\ response.body.result.image_type = "abstract"


(***************************************************************************)
(* Properties of the service: error handling, routing and metrics.         *)
(***************************************************************************)
\* the prompt, the type and the generator of the request at hand
RequestPrompt == strip(get(request, "prompt", <<>>))

RequestType == lower(get(request, "type", <<"a","u","t","o">>))

Generated == Responded /\ RequestPrompt # <<>>

\* what the generator of the full system returns for the request at hand
GeneratorResult ==
    LET p     == RequestPrompt
        a     == analyze_prompt(p, now)
        route == ai_route(p, RequestType, a.media_type)
    IN  [ route  |-> route,
          result |-> IF route = "image" THEN ImageGenerator_generate(p, a, now)
                     ELSE IF route = "video" THEN VideoGenerator_generate(p, a, now)
                     ELSE AudioGenerator_generate(p, a, now) ]

C22_ImageGenerateNeverFails ==
    (ImageCall /\ analysis = analyze_prompt(prompt, now)) =>
        /\ ~Raised(result)
        /\ result.success
        /\ result.format = "svg"
        /\ "content" \in DOMAIN result

\* the media type a 'type' of a request names
RequestedType ==
    LET ty == get(request, "type", <<"a","u","t","o">>)
    IN  IF ty = <<"i","m","a","g","e">> THEN "image"
        ELSE IF ty = <<"v","i","d","e","o">> THEN "video"
        ELSE IF ty = <<"a","u","d","i","o">> THEN "audio"
        ELSE "auto"

\* C24 as stated: a request whose type is 'image', 'video' or 'audio' is
\* answered with an artifact of exactly that type, whatever the analyzer
\* detects and whatever media keywords the prompt contains, in the full and in
\* the fallback system.
C24_TypeIsOverride ==
    (Generated /\ RequestedType # "auto") =>
        /\ response.status = 200
        /\ response.body.type = RequestedType

\* a step of /api/generate that is not a repetition without effect
GenerateStep ==
    /\ gallery' = gallery
    /\ <<request, response, service_metrics>>' # <<request, response, service_metrics>>

Counters(metrics) ==
    <<metrics.images_generated, metrics.videos_generated, metrics.audio_generated>>

Total(metrics) ==
    metrics.images_generated + metrics.videos_generated + metrics.audio_generated

\* the counters after a request that counted one artifact of type ty
CountedOne(metrics, ty) ==
    [metrics EXCEPT !.images_generated = IF ty = "image" THEN @ + 1 ELSE @,
                    !.videos_generated = IF ty = "video" THEN @ + 1 ELSE @,
                    !.audio_generated  = IF ty = "audio" THEN @ + 1 ELSE @]

\* C26: a successful /api/generate request increments total_requests by one
\* and exactly one of the three counters, that of the artifact's type, by one,
\* also when the artifact is the fallback after a raise of the generator; the
\* sum of the three counters never exceeds total_requests; and total_media of
\* a gallery response is the sum of the three counters.
C26_CountedOnce ==
    /\ [](Total(service_metrics) <= service_metrics.total_requests)
    /\ [][ /\ (GenerateStep /\ response'.status = 200) =>
                /\ response'.body.success
                /\ service_metrics'.total_requests = service_metrics.total_requests + 1
                /\ Counters(service_metrics')
                     = Counters(CountedOne(service_metrics, response'.body.type))
                /\ Total(service_metrics') = Total(service_metrics) + 1
           /\ gallery' # gallery =>
                /\ gallery'.body.gallery.total_media = Total(service_metrics)
                /\ gallery'.body.gallery.recent_images = service_metrics.images_generated
                /\ gallery'.body.gallery.recent_videos = service_metrics.videos_generated
                /\ gallery'.body.gallery.recent_audio = service_metrics.audio_generated
                /\ service_metrics' = service_metrics ]_vars

\* the gallery after one request whose generator raised: one image, counted once
C26_Witness ==
    /\ Generated
    /\ response.status = 200
    /\ "fallback_used" \in DOMAIN response.body
    /\ response.body.fallback_used
    /\ service_metrics.total_requests = 1
    /\ Counters(service_metrics) = <<1, 0, 0>>
    /\ gallery # None
    /\ gallery.body.gallery.total_media = 1

\* C27: a request whose prompt is missing, empty or blank is answered with
\* status 400 and the error 'Prompt is required', and its step leaves
\* service_metrics as it was: total_requests, the three counters and
\* active_users.
C27_RejectedUntracked ==
    /\ []( (Responded /\ RequestPrompt = <<>>) =>
              /\ response.status = 400
              /\ ~response.body.success
              /\ response.body.error = "Prompt is required" )
    /\ [][ (GenerateStep /\ strip(get(request', "prompt", <<>>)) = <<>>) =>
              service_metrics' = service_metrics ]_vars

\* a request without 'prompt' is rejected after a request that was counted
C27_Witness ==
    /\ Responded
    /\ "prompt" \notin DOMAIN request
    /\ response.status = 400
    /\ service_metrics.total_requests = 1
    /\ service_metrics.active_users # {}


(***************************************************************************)
(* Properties of HealthChecker.record_generation.                          *)
(***************************************************************************)
\* checker_after is the checker that many calls of record_generation leave
CheckerAfterIsReached ==
    /\ checker_after(0, 0) = HealthChecker_init
    /\ \A n \in {0, 1, 899, 999, 1000, 1001} :
          checker_after(n + 1, 0)
            = record_generation(checker_after(n, 0), <<"i","m","a","g","e">>, TRUE, 12, None, 0).self
    /\ \A n \in {0, 1, 900, 1001}, k \in {0, 1, 98, 99, 100, 101} :
          checker_after(n, k + 1)
            = record_generation(checker_after(n, k), <<"v","i","d","e","o">>, FALSE, 0,
                                Str("Test error"), 0).self

\* a step of record_generation: every call counts itself in total_requests
RecordStep == generation_stats' # generation_stats

\* the counter the documentation names for a media type
CounterOf(media_type) ==
    IF media_type = <<"i","m","a","g","e">> THEN k_images_generated
    ELSE IF media_type = <<"v","i","d","e","o">> THEN k_videos_generated
    ELSE k_audio_generated

\* C25 as stated: record_generation with success = true and media_type image,
\* video or audio returns without error, adds one to total_requests, to
\* successful_requests and to the counter of the type, and appends one
\* performance entry; and successful_requests is always the sum of the three
\* counters.
C25_SuccessIsCounted ==
    /\ []( generation_stats[k_successful_requests]
             = generation_stats[k_images_generated]
                 + generation_stats[k_videos_generated]
                 + generation_stats[k_audio_generated] )
    /\ [][ (RecordStep /\ recorded'.success) =>
              LET counter == CounterOf(recorded'.media_type)
              IN  /\ recorded'.exception = None
                  /\ generation_stats'[k_total_requests]
                       = generation_stats[k_total_requests] + 1
                  /\ generation_stats'[k_successful_requests]
                       = generation_stats[k_successful_requests] + 1
                  /\ generation_stats'[counter] = generation_stats[counter] + 1
                  /\ performance_history'
                       = last(Append(performance_history,
                                     [ timestamp       |-> now,
                                       media_type      |-> recorded'.media_type,
                                       success         |-> TRUE,
                                       generation_time |-> recorded'.generation_time ]),
                              1000) ]_vars


\* `list` is what is left of `appended` when its oldest entries are dropped
\* down to `bound` entries
KeepsLatest(list, appended, bound) ==
    /\ Len(list) = IF Len(appended) > bound THEN bound ELSE Len(appended)
    /\ \A i \in 1..Len(list) : list[i] = appended[Len(appended) - Len(list) + i]

\* C28: performance_history never has more than 1000 entries and error_log
\* never more than 100; a call that returns appends its performance entry, a
\* call with success = false and a non-empty error_message appends its error
\* entry and no other call changes error_log; a list that exceeds its bound
\* drops its oldest entries and keeps the latest in the order of arrival.
C28_BoundedHistories ==
    /\ [](Len(performance_history) <= 1000 /\ Len(error_log) <= 100)
    /\ [][ RecordStep =>
              LET call == recorded'
                  performance_entry == [ timestamp       |-> now,
                                         media_type      |-> call.media_type,
                                         success         |-> call.success,
                                         generation_time |-> call.generation_time ]
              IN  /\ IF call.exception = None
                     THEN KeepsLatest(performance_history',
                                      Append(performance_history, performance_entry),
                                      1000)
                     ELSE performance_history' = performance_history
                  /\ IF ~call.success /\ call.error_message # None
                          /\ call.error_message # Str("")
                     THEN KeepsLatest(error_log',
                                      Append(error_log,
                                             [ timestamp     |-> now,
                                               media_type    |-> call.media_type,
                                               error_message |-> call.error_message.str ]),
                                      100)
                     ELSE error_log' = error_log ]_vars

\* two failures of audio with a message after 900 images and 99 failures: both
\* lists are full and have dropped their oldest entry
C28_Witness ==
    /\ generation_stats[k_total_requests] = 1001
    /\ generation_stats[k_failed_requests] = 101
    /\ Len(performance_history) = 1000
    /\ Len(error_log) = 100
    /\ performance_history[1].media_type = <<"i","m","a","g","e">>
    /\ performance_history[999].media_type = <<"a","u","d","i","o">>
    /\ performance_history[1000].media_type = <<"a","u","d","i","o">>
    /\ error_log[1].media_type = <<"v","i","d","e","o">>
    /\ error_log[99].media_type = <<"a","u","d","i","o">>
    /\ error_log[100].media_type = <<"a","u","d","i","o">>

(***************************************************************************)
(* Properties of concurrent requests and calls.                            *)
(***************************************************************************)
RECURSIVE SumOver(_, _)
\* the sum of f[x] for the x in S
SumOver(S, f) ==
    IF S = {} THEN 0
    ELSE LET x == CHOOSE y \in S : TRUE IN f[x] + SumOver(S \ {x}, f)

\* the requests with a prompt that were answered
Completed == SumOver(Threads, [th \in Threads |-> threads[th].completed])

Quiescent == \A th \in Threads : threads[th].pc = "idle"

\* C29 as stated: when the requests with a non-empty prompt the threads took
\* have all completed, total_requests and the sum of the three counters have
\* grown by the number of these requests, however the reads and writes of
\* the threads were interleaved.
C29_NoLostUpdate ==
    Quiescent =>
        /\ service_metrics.total_requests = Completed
        /\ Total(service_metrics) = Completed


\* the labels of a taxonomy that have a keyword in the case-folded prompt
Matched(taxonomy, p) ==
    { e \in 1..Len(taxonomy) : keyword_scores(taxonomy, lower(p))[e] > 0 }

\* C30 as stated: in each of the five taxonomies, a prompt that has a keyword
\* of one label and of no other label gets that label, whatever its number of
\* words.
C30_OnlyMatchWins ==
    Called =>
        \A D \in Detectors :
            LET taxonomy == D[1]
                label    == D[3]
            IN  \A e \in 1..Len(taxonomy) :
                    Matched(taxonomy, prompt) = {e} => label = taxonomy[e].label


(***************************************************************************)
(* Callers of one MediaAI object and of the generators, thread by thread:  *)
(* analyze_prompt statement by statement, batch_analyze,                   *)
(* suggest_improvements, get_generation_tips and the generators' generate  *)
(* on the analyses already returned.                                       *)
(***************************************************************************)
MaxCallsMade == 2   \* calls the threads make, all together

\* analyze_prompt, lines 68-82: the lowered prompt and the dict literal
analysis_literal(p, t) ==
    LET prompt_lower == lower(p)
    IN  [ original_prompt     |-> p,
          media_type          |-> _detect_media_type(prompt_lower),
          theme               |-> _detect_theme(prompt_lower),
          style               |-> _detect_style(prompt_lower),
          mood                |-> _detect_mood(prompt_lower),
          complexity          |-> _detect_complexity(prompt_lower),
          keywords            |-> _extract_keywords(prompt_lower),
          confidence          |-> 0,
          generation_strategy |-> "",
          estimated_time      |-> 0,
          recommended_format  |-> "",
          analysis_timestamp  |-> t ]

\* the order of the four assignments of lines 85-88, then the return
next_statement(pc) ==
    CASE pc = "confidence"          -> "generation_strategy"
      [] pc = "generation_strategy" -> "estimated_time"
      [] pc = "estimated_time"      -> "recommended_format"
      [] pc = "recommended_format"  -> "return"

\* a variant of analysis_statement that estimates the time from the strategy
analysis_statement_time_of_strategy(pc, a) ==
    CASE pc = "confidence"          -> [a EXCEPT !.confidence = _calculate_confidence(a)]
      [] pc = "generation_strategy" -> [a EXCEPT !.generation_strategy = _determine_strategy(a)]
      [] pc = "estimated_time"      -> [a EXCEPT !.estimated_time = Len(a.generation_strategy)]
      [] pc = "recommended_format"  -> [a EXCEPT !.recommended_format = _recommend_format(a)]

\* analyze_prompt, one of the assignments analysis[key] = ... of lines 85-88
analysis_statement(pc, a) ==
    CASE pc = "confidence"          -> [a EXCEPT !.confidence = _calculate_confidence(a)]
      [] pc = "generation_strategy" -> [a EXCEPT !.generation_strategy = _determine_strategy(a)]
      [] pc = "estimated_time"      -> [a EXCEPT !.estimated_time = _estimate_generation_time(a)]
      [] pc = "recommended_format"  -> [a EXCEPT !.recommended_format = _recommend_format(a)]

\* tips.append(tip) under `if test`
append_if(tips, test, tip) == IF test THEN Append(tips, tip) ELSE tips

\* MediaAI.get_generation_tips; confidence is in tenths
get_generation_tips(a) ==
    LET t1 == append_if(<<>>, a.confidence < 5,
                  "Try being more specific about what type of media you want")
        t2 == append_if(t1, a.theme = "default",
                  "Adding a theme (like 'ninja', 'space', 'medieval') will improve results")
        t3 == append_if(t2, a.style = "default",
                  "Specify a style (like 'cartoon', 'realistic', 'minimalist') for better visuals")
        t4 == append_if(t3, Len(a.keywords) < 3,
                  "Add more descriptive words to get more detailed results")
    IN  append_if(t4, a.media_type = "video" /\ ~in_list(<<"a","n","i","m","a","t","i","o","n">>, a.keywords),
                  "Specify the type of animation you want (walking, flowing, spinning, etc.)")

\* MediaAI.suggest_improvements after its call of analyze_prompt
suggest_improvements(p, a) ==
    LET tips == get_generation_tips(a)
        by_theme == IF a.theme = "default"
                    THEN << p \o <<" ","w","i","t","h"," ","n","i","n","j","a"," ","t","h","e","m","e">>,
                            p \o <<" ","i","n"," ","s","p","a","c","e"," ","s","e","t","t","i","n","g">> >>
                    ELSE <<>>
        by_style == IF a.style = "default"
                    THEN << p \o <<" ","i","n"," ","c","a","r","t","o","o","n"," ","s","t","y","l","e">>,
                            p \o <<" ","w","i","t","h"," ","r","e","a","l","i","s","t","i","c"," ","d","e","t","a","i","l","s">> >>
                    ELSE <<>>
        improved_prompts == by_theme \o by_style
    IN  [ original_analysis |-> a,
          improvement_tips  |-> tips,
          suggested_prompts |-> SubSeq(improved_prompts, 1, Min2(3, Len(improved_prompts))),
          confidence_boost  |-> "Following these tips could improve generation quality by 20-40%" ]

\* generate of the generator named, called with the prompt of the analysis
generator_generate(generator, a, t) ==
    CASE generator = "image" -> ImageGenerator_generate(a.original_prompt, a, t)
      [] generator = "video" -> VideoGenerator_generate(a.original_prompt, a, t)
      [] generator = "audio" -> AudioGenerator_generate(a.original_prompt, a, t)

Generators == {"image", "video", "audio"}

CallPrompts ==
    { <<"a"," ","k","n","i","g","h","t"," ","s","t","a","n","d","i","n","g"," ","i","d","l","e"," ","i","n"," ","t","h","e"," ","c","a","s","t","l","e">>,
      <<"C","r","e","a","t","e"," ","e","p","i","c"," ","s","p","a","c","e"," ","s","o","u","n","d","t","r","a","c","k"," ","m","u","s","i","c">> }

\* the lists given to batch_analyze
CallBatches == { pq \in CallPrompts \X CallPrompts : pq[1] # pq[2] /\ Len(pq[1]) > Len(pq[2]) }

\* the calls made so far
CallsMade == SumOver(Threads, [th \in Threads |-> calls[th].made])

InitCalls ==
    /\ prompt = <<>>
    /\ now = 0
    /\ analysis = None
    /\ previous = None
    /\ scores = None
    /\ result = None
    /\ InitApp
    /\ InitChecker
    /\ InitIdle

callframe == <<prompt, now, analysis, previous, scores, result, appvars, healthvars,
               threads, media_ai>>

\* a thread enters an operation that analyses the prompts of `pending`
Enter(th, op, pending) ==
    /\ calls[th].pc = "idle"
    /\ CallsMade < MaxCallsMade
    /\ calls' = [calls EXCEPT ![th] = [@ EXCEPT !.pc = "literal", !.op = op,
                                                !.pending = pending, !.batch = <<>>,
                                                !.made = @ + 1]]
    /\ UNCHANGED callframe

CallAnalyzePrompt == \E th \in Threads, p \in CallPrompts : Enter(th, "analyze_prompt", <<p>>)

CallBatchAnalyze == \E th \in Threads, prompts \in CallBatches : Enter(th, "batch_analyze", prompts)

CallSuggestImprovements ==
    \E th \in Threads, p \in CallPrompts : Enter(th, "suggest_improvements", <<p>>)

\* lines 68-82: the local dict of this call is built, the clock is read
Literal ==
    \E th \in Threads :
        /\ calls[th].pc = "literal"
        /\ calls' = [calls EXCEPT ![th] = [@ EXCEPT !.pc = "confidence",
                         !.analysis = analysis_literal(Head(calls[th].pending), now)]]
        /\ UNCHANGED callframe

\* lines 85-88, one assignment to the local dict
Assign ==
    \E th \in Threads :
        /\ calls[th].pc \in {"confidence", "generation_strategy", "estimated_time",
                             "recommended_format"}
        /\ calls' = [calls EXCEPT ![th] = [@ EXCEPT !.pc = next_statement(calls[th].pc),
                         !.analysis = analysis_statement(calls[th].pc, calls[th].analysis)]]
        /\ UNCHANGED callframe

\* line 90 to the caller of analyze_prompt, who keeps the dict
ReturnAnalysis ==
    \E th \in Threads :
        /\ calls[th].pc = "return"
        /\ calls[th].op = "analyze_prompt"
        /\ calls' = [calls EXCEPT ![th] = [@ EXCEPT !.pc = "idle", !.pending = <<>>,
                         !.held = Append(@, calls[th].analysis),
                         !.returned = Append(@, calls[th].analysis),
                         !.out = [analysis |-> calls[th].analysis]]]
        /\ UNCHANGED callframe

\* line 90 to the comprehension of batch_analyze, which goes on or returns its list
ReturnBatch ==
    \E th \in Threads :
        /\ calls[th].pc = "return"
        /\ calls[th].op = "batch_analyze"
        /\ LET list == Append(calls[th].batch, calls[th].analysis)
               rest == Tail(calls[th].pending)
           IN  calls' = [calls EXCEPT ![th] =
                   IF rest # <<>>
                   THEN [@ EXCEPT !.pc = "literal", !.pending = rest, !.batch = list]
                   ELSE [@ EXCEPT !.pc = "idle", !.pending = rest, !.batch = list,
                                  !.held = @ \o list, !.returned = @ \o list,
                                  !.out = [analyses |-> list]]]
        /\ UNCHANGED callframe

\* line 90 to suggest_improvements, which returns the dict inside its own
ReturnSuggestion ==
    \E th \in Threads :
        /\ calls[th].pc = "return"
        /\ calls[th].op = "suggest_improvements"
        /\ calls' = [calls EXCEPT ![th] = [@ EXCEPT !.pc = "idle", !.pending = <<>>,
                         !.held = Append(@, calls[th].analysis),
                         !.returned = Append(@, calls[th].analysis),
                         !.out = suggest_improvements(Head(calls[th].pending),
                                                      calls[th].analysis)]]
        /\ UNCHANGED callframe

\* a thread passes an analysis that some caller holds to an operation that reads it
Reads(th, out) ==
    /\ calls[th].pc = "idle"
    /\ CallsMade < MaxCallsMade
    /\ calls' = [calls EXCEPT ![th] = [@ EXCEPT !.op = "read", !.out = out, !.made = @ + 1]]
    /\ UNCHANGED callframe

GetGenerationTips ==
    \E th \in Threads, owner \in Threads :
        \E i \in 1..Len(calls[owner].held) :
            Reads(th, [tips |-> get_generation_tips(calls[owner].held[i])])

Generate ==
    \E th \in Threads, owner \in Threads, generator \in Generators :
        \E i \in 1..Len(calls[owner].held) :
            Reads(th, [generator |-> generator,
                       result |-> generator_generate(generator, calls[owner].held[i], now)])

\* time passes between any two statements
CallTick ==
    /\ now < MaxClock
    /\ now' = now + 1
    /\ UNCHANGED <<prompt, analysis, previous, scores, result, appvars, healthvars, concvars>>

NextCalls ==
    \/ CallAnalyzePrompt
    \/ CallBatchAnalyze
    \/ CallSuggestImprovements
    \/ Literal
    \/ Assign
    \/ ReturnAnalysis
    \/ ReturnBatch
    \/ ReturnSuggestion
    \/ GetGenerationTips
    \/ Generate
    \/ CallTick

SpecCalls == InitCalls /\ [][NextCalls]_vars


\* the statements of analyze_prompt that assign to the local dict
Assignments == {"confidence", "generation_strategy", "estimated_time", "recommended_format"}

\* the analyses returned to the callers so far, as they were returned
ReturnedAnalyses ==
    UNION { { calls[th].returned[i] : i \in 1..Len(calls[th].returned) } : th \in Threads }

=============================================================================
